---- MODULE Spec2Model ----
(***************************************************************************)
(* MultiBuildingManager (src/src/routes/multi-building.ts) and the map     *)
(* click listener that drives it (src/src/routes/+page.svelte).            *)
(*                                                                         *)
(* Coordinates are integers in units of 1e-7 degree, so that toFixed(6)    *)
(* really rounds.  Strings are sequences of one-character strings.         *)
(* google.maps.Polygon objects are handles 1, 2, ...; a handle is created  *)
(* by the caller, and setMap(null) on it is recorded in `detached`.        *)
(***************************************************************************)
EXTENDS Integers, Sequences, FiniteSets, TLC

VARIABLES
  buildings,     \* MultiBuildingManager.buildings: the Map, as the sequence of its values in insertion order
  hasCallback,   \* whether the constructor was given onUpdate
  now,           \* Date.now(), in milliseconds
  nextPoly,      \* the next google.maps.Polygon handle that `new` returns
  onMap,         \* the polygons whose map is not null
  detached,      \* the polygons that have received setMap(null)
  lostRefs,      \* the polygons that were referenced by an entry when it left the Map
  calls,         \* the number of calls made to the manager so far
  expected,      \* addBuilding calls minus removeBuilding calls that returned true, since the last clear
  op,            \* the last operation called: its name, its id argument, its other arguments
  ret,           \* what the last operation returned
  notifs,        \* the onUpdate invocations made by the last operation, in order
  clicks,        \* the running map click handlers
  selectedBuildingId, \* +page.svelte selectedBuildingId
  selectedBuildings,  \* +page.svelte selectedBuildings
  showPanels,    \* the UI's showPanels flag
  pageLocation,  \* +page.svelte location, shown by the building insights section
  lookups,       \* the number of geocoder and solar lookups the click handlers have started
  panelCapacityWattsInput, \* MultiBuildingSection.svelte panelCapacityWattsInput
  editingNickname,    \* MultiBuildingList editingNickname
  tempNickname,       \* MultiBuildingList tempNickname
  requestSent,        \* BuildingInsightsSection.svelte requestSent
  requested,          \* the location of the findClosestBuilding call that section awaits
  buildingInsights,   \* BuildingInsightsSection.svelte buildingInsights: the location and the insights shown
  requestError        \* BuildingInsightsSection.svelte requestError

vars == <<buildings, hasCallback, now, nextPoly, onMap, detached, lostRefs, calls, expected,
          op, ret, notifs, clicks, selectedBuildingId, selectedBuildings,
          showPanels, pageLocation, lookups, panelCapacityWattsInput, editingNickname,
          tempNickname, requestSent, requested, buildingInsights, requestError>>

----------------------------------------------------------------------------
(* Bounds *)

MaxCalls == 4     \* calls to the manager in one run
MaxTime == 1      \* milliseconds that pass in one run
MaxPanels == 2    \* polygons in one panel list
MaxClicks == 2    \* map clicks in one run
MaxAddress == 4   \* characters in an address of the nickname runs
MaxConfigs == 3   \* configurations in a list given to findSolarConfig

(* hasBuilding's default threshold and the one the click listener passes:   *)
(* 0.0001 degree, in units of 1e-7 degree.                                  *)
DefaultThreshold == 1000

----------------------------------------------------------------------------
(* Values *)

NoPoly == 0
NoId == <<>>
NoArg == <<>>

(* Where the map is centred when the page has loaded *)
DefaultLocation == [lat |-> 0, lng |-> 0]

(* buildingInsights = undefined *)
NoInsights == <<>>

(* Locations: two that agree after rounding to 6 decimals, and one at       *)
(* distance exactly 0.0001 degree from the first.                           *)
Locations == { [lat |-> 0, lng |-> 0], [lat |-> 4, lng |-> 0], [lat |-> 600, lng |-> 800] }

Digits == {"0", "1", "2", "3", "4", "5", "6", "7", "8", "9"}
Letters == {"a", "b", "c", "d", "e", "f", "g", "h", "i", "j", "k", "l", "m",
            "n", "o", "p", "q", "r", "s", "t", "u", "v", "w", "x", "y", "z",
            "A", "B", "C", "D", "E", "F", "G", "H", "I", "J", "K", "L", "M",
            "N", "O", "P", "Q", "R", "S", "T", "U", "V", "W", "X", "Y", "Z"}

Addr12a == <<"1", "2", "a", " ", "M", ",", " ", "T">>
AddrMain == <<" ", "M", " ", ",", "7">>
NickOffice == <<"O", "f">>
NickEmpty == <<>>

(* The test fixture's solarPanelConfigs (1), and further datasets.           *)
Insights(k) ==
  IF k = 1
  THEN [ solarPanelConfigs |-> << [panelsCount |-> 50, yearlyEnergyDcKwh |-> 20000],
                                  [panelsCount |-> 75, yearlyEnergyDcKwh |-> 30000],
                                  [panelsCount |-> 100, yearlyEnergyDcKwh |-> 40000] >>,
         maxArrayPanelsCount |-> 100, maxArrayAreaMeters2 |-> 200,
         wholeRoofAreaMeters2 |-> 250, panelCapacityWatts |-> 400,
         carbonOffsetFactorKgPerMwh |-> 428, hasBoundingBox |-> TRUE, solarPanels |-> 2 ]
  ELSE IF k = 2
  THEN [ solarPanelConfigs |-> << [panelsCount |-> 7, yearlyEnergyDcKwh |-> 3001] >>,
         maxArrayPanelsCount |-> 31, maxArrayAreaMeters2 |-> 60,
         wholeRoofAreaMeters2 |-> 90, panelCapacityWatts |-> 250,
         carbonOffsetFactorKgPerMwh |-> 500, hasBoundingBox |-> FALSE, solarPanels |-> 1 ]
  ELSE IF k = 3
  THEN [ solarPanelConfigs |-> << [panelsCount |-> 1, yearlyEnergyDcKwh |-> 400],
                                  [panelsCount |-> 2, yearlyEnergyDcKwh |-> 790] >>,
         maxArrayPanelsCount |-> 2, maxArrayAreaMeters2 |-> 4,
         wholeRoofAreaMeters2 |-> 9, panelCapacityWatts |-> 250,
         carbonOffsetFactorKgPerMwh |-> 428, hasBoundingBox |-> TRUE, solarPanels |-> 2 ]
  ELSE [ solarPanelConfigs |-> << [panelsCount |-> 0, yearlyEnergyDcKwh |-> 0] >>,
         maxArrayPanelsCount |-> 0, maxArrayAreaMeters2 |-> 0,
         wholeRoofAreaMeters2 |-> 12, panelCapacityWatts |-> 250,
         carbonOffsetFactorKgPerMwh |-> 428, hasBoundingBox |-> TRUE, solarPanels |-> 0 ]

InsightIds == {1, 2}

(* The responses of the page's solar lookup: one with fewer solarPanels than  *)
(* its configuration 0 has panels (2), one with more, as the API gives them  *)
(* (3), and one of a roof that takes no panel (4).                           *)
PageInsightIds == {2, 3, 4}

----------------------------------------------------------------------------
(* Pure helpers of MultiBuildingManager *)

Abs(x) == IF x < 0 THEN -x ELSE x

(* Number.prototype.toFixed(6) of x * 1e-7: the sign and the magnitude      *)
(* rounded to the nearest 1e-6 (the larger n on a tie).                     *)
ToFixed6(x) == [neg |-> x < 0, micro |-> (Abs(x) + 5) \div 10]

(* generateId without the Date.now() part *)
generateIdNoTime(location, t) == <<ToFixed6(location.lat), ToFixed6(location.lng), 0>>

(* generateId: `building_${lat.toFixed(6)}_${lng.toFixed(6)}_${Date.now()}` *)
generateId(location, t) == <<ToFixed6(location.lat), ToFixed6(location.lng), t>>

(* address.split(',')[0] *)
RECURSIVE BeforeComma(_)
BeforeComma(s) ==
  IF s = <<>> \/ Head(s) = "," THEN <<>> ELSE <<Head(s)>> \o BeforeComma(Tail(s))

(* String.prototype.trim, for the blank as the only white space *)
RECURSIVE TrimLeft(_)
TrimLeft(s) == IF s # <<>> /\ Head(s) = " " THEN TrimLeft(Tail(s)) ELSE s
RECURSIVE TrimRight(_)
TrimRight(s) ==
  IF s # <<>> /\ s[Len(s)] = " " THEN TrimRight(SubSeq(s, 1, Len(s) - 1)) ELSE s
Trim(s) == TrimRight(TrimLeft(s))

(* The longest run of digits at the head of s *)
RECURSIVE DigitRun(_)
DigitRun(s) ==
  IF s # <<>> /\ Head(s) \in Digits THEN <<Head(s)>> \o DigitRun(Tail(s)) ELSE <<>>

(* parts.match(/(\d+[a-zA-Z]?)/): the leftmost match, <<>> when there is none *)
RECURSIVE MatchToken(_)
MatchToken(s) ==
  IF s = <<>> THEN <<>>
  ELSE IF Head(s) \in Digits
       THEN LET d == DigitRun(s)
                rest == SubSeq(s, Len(d) + 1, Len(s))
            IN IF rest # <<>> /\ Head(rest) \in Letters THEN d \o <<Head(rest)>> ELSE d
       ELSE MatchToken(Tail(s))

Label == <<"G", "e", "b", "ä", "u", "d", "e">>

(* generateNickname with the pattern anchored at the start: /^(\d+[a-zA-Z]?)/ *)
generateNicknameAnchored(address) ==
  LET parts == Trim(BeforeComma(address))
      match == IF parts # <<>> /\ Head(parts) \in Digits THEN MatchToken(parts) ELSE <<>>
  IN IF match # <<>> THEN Label \o <<" ">> \o match ELSE Label

generateNickname(address) ==
  LET parts == Trim(BeforeComma(address))
      match == MatchToken(parts)
  IN IF match # <<>> THEN Label \o <<" ">> \o match ELSE Label

----------------------------------------------------------------------------
(* The manager's methods, as functions of the state they read and write:    *)
(* st = [buildings, hasCallback, onMap, detached, lostRefs, notifs].        *)

RECURSIVE IndexOf(_, _)
IndexOf(bs, id) ==
  IF bs = <<>> THEN 0
  ELSE IF bs[Len(bs)].id = id /\ IndexOf(SubSeq(bs, 1, Len(bs) - 1), id) = 0 THEN Len(bs)
  ELSE IndexOf(SubSeq(bs, 1, Len(bs) - 1), id)

RemoveAt(bs, i) == SubSeq(bs, 1, i - 1) \o SubSeq(bs, i + 1, Len(bs))

Range(s) == { s[i] : i \in 1..Len(s) }

(* The polygons an entry references *)
RefsOf(b) == Range(b.panels) \cup (IF b.boundary = NoPoly THEN {} ELSE {b.boundary})

(* Map.prototype.get / has *)
mapHas(bs, id) == IndexOf(bs, id) # 0
mapGet(bs, id) == bs[IndexOf(bs, id)]

(* Map.prototype.set: a new key is appended, an existing key keeps its place *)
(* and gets the new value; the value it replaces is no longer referenced.    *)
mapSet(st, id, building) ==
  LET i == IndexOf(st.buildings, id)
  IN IF i = 0
     THEN [st EXCEPT !.buildings = Append(@, building)]
     ELSE [st EXCEPT !.buildings[i] = building,
                     !.lostRefs = @ \cup RefsOf(st.buildings[i])]

(* Map.prototype.delete *)
mapDelete(st, id) ==
  LET i == IndexOf(st.buildings, id)
  IN IF i = 0 THEN st
     ELSE [st EXCEPT !.buildings = RemoveAt(@, i),
                     !.lostRefs = @ \cup RefsOf(st.buildings[i])]

(* Map.prototype.clear *)
mapClear(st) ==
  [st EXCEPT !.buildings = <<>>,
             !.lostRefs = @ \cup UNION { RefsOf(st.buildings[i]) : i \in 1..Len(st.buildings) }]

(* google.maps.Polygon.setMap(null) on each polygon of ps *)
setMapNull(st, ps) == [st EXCEPT !.onMap = @ \ ps, !.detached = @ \cup ps]

(* building.boundary?.setMap(null); building.panels.forEach(p => p.setMap(null)) *)
cleanUp(st, b) == setMapNull(st, RefsOf(b))

getAllBuildings(st) == st.buildings

(* getActiveBuildings without the filter *)
getActiveBuildingsAll(st) == st.buildings

getActiveBuildings(st) == LET act(b) == b.isActive IN SelectSeq(st.buildings, act)

(* notifyUpdate: the callback, when there is one, gets getAllBuildings().   *)
(* Each invocation is recorded with what had been detached by then.         *)
notifyUpdate(st) ==
  IF st.hasCallback
  THEN [st EXCEPT !.notifs = Append(@, [buildings |-> getAllBuildings(st),
                                        detached |-> st.detached])]
  ELSE st

(* addBuilding; a = [buildingInsights, location, address, hasConfigId,      *)
(* configId, hasNickname, nickname], t = Date.now()                         *)
(* addBuilding that leaves an entry already stored under the id in place *)
addBuildingKeepsExisting(st, a, t) ==
  LET id == generateId(a.location, t)
      building == [ id |-> id,
                    buildingInsights |-> a.buildingInsights,
                    configId |-> IF a.hasConfigId THEN a.configId ELSE 0,
                    location |-> a.location,
                    address |-> a.address,
                    nickname |-> IF a.hasNickname /\ a.nickname # <<>>
                                 THEN a.nickname ELSE generateNickname(a.address),
                    boundary |-> NoPoly,
                    panels |-> <<>>,
                    isActive |-> TRUE ]
  IN IF mapHas(st.buildings, id)
     THEN [st |-> notifyUpdate(st), ok |-> TRUE, id |-> id]
     ELSE [st |-> notifyUpdate(mapSet(st, id, building)), ok |-> TRUE, id |-> id]

addBuilding(st, a, t) ==
  LET id == generateId(a.location, t)
      building == [ id |-> id,
                    buildingInsights |-> a.buildingInsights,
                    configId |-> IF a.hasConfigId THEN a.configId ELSE 0,
                    location |-> a.location,
                    address |-> a.address,
                    nickname |-> IF a.hasNickname /\ a.nickname # <<>>
                                 THEN a.nickname ELSE generateNickname(a.address),
                    boundary |-> NoPoly,
                    panels |-> <<>>,
                    isActive |-> TRUE ]
  IN [st |-> notifyUpdate(mapSet(st, id, building)), ok |-> TRUE, id |-> id]

(* removeBuilding with the last entry moved into the place of the deleted one *)
removeBuildingSwap(st, id) ==
  IF mapHas(st.buildings, id)
  THEN LET building == mapGet(st.buildings, id)
           s1 == mapDelete(cleanUp(st, building), id)
           n == Len(s1.buildings)
           i == IndexOf(st.buildings, id)
           s2 == IF i <= n - 1
                 THEN [s1 EXCEPT !.buildings =
                         SubSeq(@, 1, i - 1) \o <<@[n]>> \o SubSeq(@, i, n - 1)]
                 ELSE s1
       IN [st |-> notifyUpdate(s2), ok |-> TRUE, id |-> NoId]
  ELSE [st |-> st, ok |-> FALSE, id |-> NoId]

(* removeBuilding that notifies before it deletes *)
removeBuildingNotifyFirst(st, id) ==
  IF mapHas(st.buildings, id)
  THEN LET building == mapGet(st.buildings, id)
       IN [st |-> mapDelete(notifyUpdate(cleanUp(st, building)), id), ok |-> TRUE, id |-> NoId]
  ELSE [st |-> st, ok |-> FALSE, id |-> NoId]

(* removeBuilding that cleans up the map objects after it has notified *)
removeBuildingLateCleanUp(st, id) ==
  IF mapHas(st.buildings, id)
  THEN LET building == mapGet(st.buildings, id)
       IN [st |-> cleanUp(notifyUpdate(mapDelete(st, id)), building), ok |-> TRUE, id |-> NoId]
  ELSE [st |-> st, ok |-> FALSE, id |-> NoId]

(* removeBuilding that does its work only when there is a callback *)
removeBuildingNeedsCallback(st, id) ==
  IF mapHas(st.buildings, id) /\ st.hasCallback
  THEN LET building == mapGet(st.buildings, id)
       IN [st |-> notifyUpdate(mapDelete(cleanUp(st, building), id)), ok |-> TRUE, id |-> NoId]
  ELSE [st |-> st, ok |-> FALSE, id |-> NoId]

removeBuilding(st, id) ==
  IF mapHas(st.buildings, id)
  THEN LET building == mapGet(st.buildings, id)
       IN [st |-> notifyUpdate(mapDelete(cleanUp(st, building), id)), ok |-> TRUE, id |-> NoId]
  ELSE [st |-> st, ok |-> FALSE, id |-> NoId]

(* The four in-place field updates share one shape *)
(* updateBuildingConfig that also makes the entry active *)
updateBuildingConfigActivates(st, id, configId) ==
  IF mapHas(st.buildings, id)
  THEN [st |-> notifyUpdate([st EXCEPT !.buildings[IndexOf(st.buildings, id)].configId = configId,
                                       !.buildings[IndexOf(st.buildings, id)].isActive = TRUE]),
        ok |-> TRUE, id |-> NoId]
  ELSE [st |-> st, ok |-> FALSE, id |-> NoId]

updateBuildingConfig(st, id, configId) ==
  IF mapHas(st.buildings, id)
  THEN [st |-> notifyUpdate([st EXCEPT !.buildings[IndexOf(st.buildings, id)].configId = configId]),
        ok |-> TRUE, id |-> NoId]
  ELSE [st |-> st, ok |-> FALSE, id |-> NoId]

(* updateBuildingNickname that notifies whether or not it found the entry *)
updateBuildingNicknameAlwaysNotify(st, id, nickname) ==
  IF mapHas(st.buildings, id)
  THEN [st |-> notifyUpdate([st EXCEPT !.buildings[IndexOf(st.buildings, id)].nickname = nickname]),
        ok |-> TRUE, id |-> NoId]
  ELSE [st |-> notifyUpdate(st), ok |-> FALSE, id |-> NoId]

updateBuildingNickname(st, id, nickname) ==
  IF mapHas(st.buildings, id)
  THEN [st |-> notifyUpdate([st EXCEPT !.buildings[IndexOf(st.buildings, id)].nickname = nickname]),
        ok |-> TRUE, id |-> NoId]
  ELSE [st |-> st, ok |-> FALSE, id |-> NoId]

(* toggleBuildingActive without the notifyUpdate call *)
toggleBuildingActiveSilent(st, id) ==
  IF mapHas(st.buildings, id)
  THEN [st |-> [st EXCEPT !.buildings[IndexOf(st.buildings, id)].isActive = ~@],
        ok |-> TRUE, id |-> NoId]
  ELSE [st |-> st, ok |-> FALSE, id |-> NoId]

(* toggleBuildingActive that only ever deactivates *)
toggleBuildingActiveOff(st, id) ==
  IF mapHas(st.buildings, id)
  THEN [st |-> notifyUpdate([st EXCEPT !.buildings[IndexOf(st.buildings, id)].isActive = FALSE]),
        ok |-> TRUE, id |-> NoId]
  ELSE [st |-> st, ok |-> FALSE, id |-> NoId]

toggleBuildingActive(st, id) ==
  IF mapHas(st.buildings, id)
  THEN [st |-> notifyUpdate([st EXCEPT !.buildings[IndexOf(st.buildings, id)].isActive = ~@]),
        ok |-> TRUE, id |-> NoId]
  ELSE [st |-> st, ok |-> FALSE, id |-> NoId]

(* setBuildingPanels that takes the panels it replaces off the map *)
setBuildingPanelsDetachOld(st, id, panels) ==
  IF mapHas(st.buildings, id)
  THEN [st |-> [setMapNull(st, Range(mapGet(st.buildings, id).panels))
                  EXCEPT !.buildings[IndexOf(st.buildings, id)].panels = panels],
        ok |-> TRUE, id |-> NoId]
  ELSE [st |-> st, ok |-> FALSE, id |-> NoId]

setBuildingPanels(st, id, panels) ==
  IF mapHas(st.buildings, id)
  THEN [st |-> [st EXCEPT !.buildings[IndexOf(st.buildings, id)].panels = panels],
        ok |-> TRUE, id |-> NoId]
  ELSE [st |-> st, ok |-> FALSE, id |-> NoId]

setBuildingBoundary(st, id, boundary) ==
  IF mapHas(st.buildings, id)
  THEN [st |-> [st EXCEPT !.buildings[IndexOf(st.buildings, id)].boundary = boundary],
        ok |-> TRUE, id |-> NoId]
  ELSE [st |-> st, ok |-> FALSE, id |-> NoId]

getBuilding(st, id) == IF mapHas(st.buildings, id) THEN <<mapGet(st.buildings, id)>> ELSE <<>>

(* clear: clean up every entry, empty the Map, notify *)
RECURSIVE cleanUpAll(_, _)
cleanUpAll(st, bs) == IF bs = <<>> THEN st ELSE cleanUpAll(cleanUp(st, Head(bs)), Tail(bs))

(* clear that returns early on an empty Map *)
clearSkipsEmpty(st) ==
  IF st.buildings = <<>>
  THEN [st |-> st, ok |-> TRUE, id |-> NoId]
  ELSE [st |-> notifyUpdate(mapClear(cleanUpAll(st, st.buildings))), ok |-> TRUE, id |-> NoId]

(* clear() reporting to the callback before it empties the map *)
clearNotifiesFirst(st) ==
  [st |-> mapClear(notifyUpdate(cleanUpAll(st, st.buildings))), ok |-> TRUE, id |-> NoId]

clear(st) ==
  [st |-> notifyUpdate(mapClear(cleanUpAll(st, st.buildings))), ok |-> TRUE, id |-> NoId]

(* hasBuilding: the first entry, in Map order, at distance < threshold.     *)
(* sqrt(dlat^2 + dlng^2) < threshold is decided on the squares.             *)
(* The distance test decided on the squares alone, and with <= *)
NearOrAt(l1, l2, threshold) ==
  LET latDiff == Abs(l1.lat - l2.lat)
      lngDiff == Abs(l1.lng - l2.lng)
  IN latDiff * latDiff + lngDiff * lngDiff <= threshold * threshold

Near(l1, l2, threshold) ==
  LET latDiff == Abs(l1.lat - l2.lat)
      lngDiff == Abs(l1.lng - l2.lng)
  IN threshold > 0 /\ latDiff * latDiff + lngDiff * lngDiff < threshold * threshold

RECURSIVE hasBuildingIn(_, _, _)
hasBuildingIn(bs, location, threshold) ==
  IF bs = <<>> THEN NoId
  ELSE IF Near(location, Head(bs).location, threshold) THEN Head(bs).id
  ELSE hasBuildingIn(Tail(bs), location, threshold)

hasBuilding(st, location, threshold) == hasBuildingIn(st.buildings, location, threshold)

(* The mutator o = [name, id, arg] called at time t on a manager in state   *)
(* st; the polygons among the arguments have been created on the map.       *)
Call(st, o, t) ==
  CASE o.name = "add" -> addBuilding(st, o.arg, t)
    [] o.name = "remove" -> removeBuilding(st, o.id)
    [] o.name = "updateConfig" -> updateBuildingConfig(st, o.id, o.arg)
    [] o.name = "updateNickname" -> updateBuildingNickname(st, o.id, o.arg)
    [] o.name = "toggleActive" -> toggleBuildingActive(st, o.id)
    [] o.name = "setPanels" ->
         setBuildingPanels([st EXCEPT !.onMap = @ \cup Range(o.arg)], o.id, o.arg)
    [] o.name = "setBoundary" ->
         setBuildingBoundary([st EXCEPT !.onMap = @ \cup {o.arg}], o.id, o.arg)
    [] o.name = "clear" -> clear(st)

----------------------------------------------------------------------------
(* getAggregatedData.  A Number is modelled by the rational it stands for,  *)
(* [num, den] in lowest terms with den > 0, so that sums, products and      *)
(* Math.floor are exact; NaN is the one value with den = 0.                 *)

RECURSIVE Gcd(_, _)
Gcd(a, b) == IF b = 0 THEN a ELSE Gcd(b, a % b)

Rat(n, d) == LET g == Gcd(Abs(n), d) IN [num |-> n \div g, den |-> d \div g]
Num(n) == Rat(n, 1)
NaN == [num |-> 0, den |-> 0]
RatAdd(x, y) == Rat(x.num * y.den + y.num * x.den, x.den * y.den)
RatMul(x, y) == Rat(x.num * y.num, x.den * y.den)
RatDiv(x, n) == IF n = 0 THEN NaN ELSE Rat(x.num, x.den * n)
Floor(x) == x.num \div x.den

(* solarPanelConfigs[building.configId]: <<config>>, or <<>> for undefined *)
(* The lookup with the index clamped into the list *)
configOfClamped(building) ==
  LET configs == Insights(building.buildingInsights).solarPanelConfigs
  IN IF building.configId \in 0..(Len(configs) - 1)
     THEN <<configs[building.configId + 1]>> ELSE <<configs[Len(configs)]>>

configOf(building) ==
  LET configs == Insights(building.buildingInsights).solarPanelConfigs
  IN IF building.configId \in 0..(Len(configs) - 1)
     THEN <<configs[building.configId + 1]>> ELSE <<>>

(* Math.floor(config.panelsCount * panelCapacityRatio) *)
(* Math.round in the place of Math.floor *)
panelsOfRounded(config, panelCapacityRatio) ==
  Floor(RatAdd(RatMul(Num(config.panelsCount), panelCapacityRatio), Rat(1, 2)))

panelsOf(config, panelCapacityRatio) ==
  Floor(RatMul(Num(config.panelsCount), panelCapacityRatio))

(* config.yearlyEnergyDcKwh * panelCapacityRatio * dcToAcDerate *)
(* The yield without the panelCapacityRatio factor *)
energyOfUnscaled(config, panelCapacityRatio, dcToAcDerate) ==
  RatMul(Num(config.yearlyEnergyDcKwh), dcToAcDerate)

energyOf(config, panelCapacityRatio, dcToAcDerate) ==
  RatMul(RatMul(Num(config.yearlyEnergyDcKwh), panelCapacityRatio), dcToAcDerate)

(* The sum in the place of the mean *)
averageOfSum(totalPanelCapacity, length) == Num(totalPanelCapacity)

(* activeBuildings.length > 0 ? totalPanelCapacity / activeBuildings.length : 0 *)
(* The division without the length check: 0 / 0 *)
averageOfUnguarded(totalPanelCapacity, length) ==
  RatDiv(Num(totalPanelCapacity), length)

averageOf(totalPanelCapacity, length) ==
  IF length > 0 THEN RatDiv(Num(totalPanelCapacity), length) ELSE Num(0)

(* The totals before the loop *)
NoTotals ==
  [ ok |-> TRUE, totalPanelsCount |-> 0, totalYearlyEnergyDcKwh |-> Num(0),
    totalMaxArrayPanelsCount |-> 0, totalMaxArrayAreaMeters2 |-> 0, totalRoofArea |-> 0,
    totalCarbonOffset |-> Num(0), totalPanelCapacity |-> 0 ]

(* for (const building of activeBuildings): reading config.panelsCount of   *)
(* an undefined config throws, which ends the call.                         *)
RECURSIVE addUp(_, _, _, _)
addUp(totals, bs, panelCapacityRatio, dcToAcDerate) ==
  IF bs = <<>> THEN totals
  ELSE LET building == Head(bs)
           solarPotential == Insights(building.buildingInsights)
           found == configOf(building)
       IN IF found = <<>> THEN [ok |-> FALSE]
          ELSE LET config == found[1]
                   energy == energyOf(config, panelCapacityRatio, dcToAcDerate)
               IN addUp([ ok |-> TRUE,
                          totalPanelsCount |->
                            totals.totalPanelsCount + panelsOf(config, panelCapacityRatio),
                          totalYearlyEnergyDcKwh |-> RatAdd(totals.totalYearlyEnergyDcKwh, energy),
                          totalMaxArrayPanelsCount |->
                            totals.totalMaxArrayPanelsCount + solarPotential.maxArrayPanelsCount,
                          totalMaxArrayAreaMeters2 |->
                            totals.totalMaxArrayAreaMeters2 + solarPotential.maxArrayAreaMeters2,
                          totalRoofArea |-> totals.totalRoofArea + solarPotential.wholeRoofAreaMeters2,
                          totalCarbonOffset |->
                            RatAdd(totals.totalCarbonOffset,
                                   RatDiv(RatMul(energy, Num(solarPotential.carbonOffsetFactorKgPerMwh)),
                                          1000)),
                          totalPanelCapacity |->
                            totals.totalPanelCapacity + solarPotential.panelCapacityWatts ],
                        Tail(bs), panelCapacityRatio, dcToAcDerate)

(* getAggregatedData whose maximum panel count is scaled like the panel count *)
getAggregatedDataScaledMax(st, panelCapacityRatio, dcToAcDerate) ==
  LET activeBuildings == getActiveBuildings(st)
      totals == addUp(NoTotals, activeBuildings, panelCapacityRatio, dcToAcDerate)
  IN IF ~totals.ok THEN [ok |-> FALSE]
     ELSE [ ok |-> TRUE,
            totalPanelsCount |-> totals.totalPanelsCount,
            totalYearlyEnergyDcKwh |-> totals.totalYearlyEnergyDcKwh,
            totalAreaMeters2 |-> totals.totalPanelsCount * 2,
            totalMaxArrayPanelsCount |->
              Floor(RatMul(Num(totals.totalMaxArrayPanelsCount), panelCapacityRatio)),
            totalMaxArrayAreaMeters2 |-> totals.totalMaxArrayAreaMeters2,
            totalRoofArea |-> totals.totalRoofArea,
            buildings |-> activeBuildings,
            averagePanelCapacityWatts |-> averageOf(totals.totalPanelCapacity, Len(activeBuildings)),
            totalCarbonOffsetKgPerYear |-> totals.totalCarbonOffset ]

(* getAggregatedData that weights the whole yield by the factor of the      *)
(* first active building                                                    *)
getAggregatedDataOneFactor(st, panelCapacityRatio, dcToAcDerate) ==
  LET activeBuildings == getActiveBuildings(st)
      totals == addUp(NoTotals, activeBuildings, panelCapacityRatio, dcToAcDerate)
  IN IF ~totals.ok THEN [ok |-> FALSE]
     ELSE [ ok |-> TRUE,
            totalPanelsCount |-> totals.totalPanelsCount,
            totalYearlyEnergyDcKwh |-> totals.totalYearlyEnergyDcKwh,
            totalAreaMeters2 |-> totals.totalPanelsCount * 2,
            totalMaxArrayPanelsCount |-> totals.totalMaxArrayPanelsCount,
            totalMaxArrayAreaMeters2 |-> totals.totalMaxArrayAreaMeters2,
            totalRoofArea |-> totals.totalRoofArea,
            buildings |-> activeBuildings,
            averagePanelCapacityWatts |-> averageOf(totals.totalPanelCapacity, Len(activeBuildings)),
            totalCarbonOffsetKgPerYear |->
              IF activeBuildings = <<>> THEN Num(0)
              ELSE RatDiv(RatMul(totals.totalYearlyEnergyDcKwh,
                                 Num(Insights(activeBuildings[1].buildingInsights)
                                       .carbonOffsetFactorKgPerMwh)),
                          1000) ]

(* getAggregatedData that takes the area from the insights' array area *)
getAggregatedDataArrayArea(st, panelCapacityRatio, dcToAcDerate) ==
  LET activeBuildings == getActiveBuildings(st)
      totals == addUp(NoTotals, activeBuildings, panelCapacityRatio, dcToAcDerate)
  IN IF ~totals.ok THEN [ok |-> FALSE]
     ELSE [ ok |-> TRUE,
            totalPanelsCount |-> totals.totalPanelsCount,
            totalYearlyEnergyDcKwh |-> totals.totalYearlyEnergyDcKwh,
            totalAreaMeters2 |-> totals.totalMaxArrayAreaMeters2,
            totalMaxArrayPanelsCount |-> totals.totalMaxArrayPanelsCount,
            totalMaxArrayAreaMeters2 |-> totals.totalMaxArrayAreaMeters2,
            totalRoofArea |-> totals.totalRoofArea,
            buildings |-> activeBuildings,
            averagePanelCapacityWatts |-> averageOf(totals.totalPanelCapacity, Len(activeBuildings)),
            totalCarbonOffsetKgPerYear |-> totals.totalCarbonOffset ]

(* The value returned, or [ok |-> FALSE] when the call threw *)
getAggregatedData(st, panelCapacityRatio, dcToAcDerate) ==
  LET activeBuildings == getActiveBuildings(st)
      totals == addUp(NoTotals, activeBuildings, panelCapacityRatio, dcToAcDerate)
  IN IF ~totals.ok THEN [ok |-> FALSE]
     ELSE [ ok |-> TRUE,
            totalPanelsCount |-> totals.totalPanelsCount,
            totalYearlyEnergyDcKwh |-> totals.totalYearlyEnergyDcKwh,
            totalAreaMeters2 |-> totals.totalPanelsCount * 2,
            totalMaxArrayPanelsCount |-> totals.totalMaxArrayPanelsCount,
            totalMaxArrayAreaMeters2 |-> totals.totalMaxArrayAreaMeters2,
            totalRoofArea |-> totals.totalRoofArea,
            buildings |-> activeBuildings,
            averagePanelCapacityWatts |-> averageOf(totals.totalPanelCapacity, Len(activeBuildings)),
            totalCarbonOffsetKgPerYear |-> totals.totalCarbonOffset ]

----------------------------------------------------------------------------
(* The calls a caller of the manager makes *)

AddArgs ==
  { [buildingInsights |-> 1, location |-> [lat |-> 0, lng |-> 0], address |-> Addr12a,
     hasConfigId |-> FALSE, configId |-> 0, hasNickname |-> FALSE, nickname |-> <<>>],
    [buildingInsights |-> 1, location |-> [lat |-> 4, lng |-> 0], address |-> AddrMain,
     hasConfigId |-> TRUE, configId |-> 1, hasNickname |-> TRUE, nickname |-> NickOffice],
    [buildingInsights |-> 2, location |-> [lat |-> 600, lng |-> 800], address |-> AddrMain,
     hasConfigId |-> TRUE, configId |-> 0, hasNickname |-> TRUE, nickname |-> NickEmpty] }

ConfigArgs == {3}
NicknameArgs == {NickOffice}

(* The ids a caller passes: every live id, and the id that add returns for  *)
(* the default location at time 0, which is live in some states and not     *)
(* yet, or no longer, live in the others.                                   *)
StaleId == generateId(DefaultLocation, 0)
LiveIds == { buildings[i].id : i \in 1..Len(buildings) }
IdArgs == LiveIds \cup {StaleId}

Cur == [buildings |-> buildings, hasCallback |-> hasCallback, onMap |-> onMap,
        detached |-> detached, lostRefs |-> lostRefs, notifs |-> <<>>]

(* The state a call leaves, what it returned, and what it was *)
Apply(r, name, id, arg) ==
  /\ buildings' = r.st.buildings
  /\ onMap' = r.st.onMap
  /\ detached' = r.st.detached
  /\ lostRefs' = r.st.lostRefs
  /\ notifs' = r.st.notifs
  /\ ret' = [ok |-> r.ok, id |-> r.id]
  /\ op' = [name |-> name, id |-> id, arg |-> arg]

(* A call made directly on a manager, as the unit tests make it *)
Commit(r, name, id, arg) ==
  /\ calls < MaxCalls
  /\ calls' = calls + 1
  /\ Apply(r, name, id, arg)

(* The state of the sections beside the map *)
SectionsUnchanged ==
  UNCHANGED <<panelCapacityWattsInput, editingNickname, tempNickname, requestSent, requested,
              buildingInsights, requestError>>

PageUnchanged ==
  /\ UNCHANGED <<clicks, selectedBuildingId, selectedBuildings, showPanels, pageLocation, lookups>>
  /\ SectionsUnchanged

(* new google.maps.Polygon({..., map}) n times: the handles, in order *)
NewPolygons(n) == [i \in 1..n |-> nextPoly + i - 1]

AddBuilding ==
  /\ \E a \in AddArgs, t \in now..MaxTime :
       /\ now' = t
       /\ Commit(addBuilding(Cur, a, t), "add", NoId, a)
  /\ expected' = expected + 1
  /\ UNCHANGED <<hasCallback, nextPoly>>
  /\ PageUnchanged

RemoveBuilding ==
  /\ \E id \in IdArgs :
       LET r == removeBuilding(Cur, id)
       IN /\ Commit(r, "remove", id, NoArg)
          /\ expected' = IF r.ok THEN expected - 1 ELSE expected
  /\ UNCHANGED <<hasCallback, now, nextPoly>>
  /\ PageUnchanged

UpdateBuildingConfig ==
  /\ \E id \in IdArgs, c \in ConfigArgs : Commit(updateBuildingConfig(Cur, id, c), "updateConfig", id, c)
  /\ UNCHANGED <<hasCallback, now, nextPoly, expected>>
  /\ PageUnchanged

UpdateBuildingNickname ==
  /\ \E id \in IdArgs, n \in NicknameArgs :
       Commit(updateBuildingNickname(Cur, id, n), "updateNickname", id, n)
  /\ UNCHANGED <<hasCallback, now, nextPoly, expected>>
  /\ PageUnchanged

ToggleBuildingActive ==
  /\ \E id \in IdArgs : Commit(toggleBuildingActive(Cur, id), "toggleActive", id, NoArg)
  /\ UNCHANGED <<hasCallback, now, nextPoly, expected>>
  /\ PageUnchanged

(* The caller creates n polygons on the map and hands them over *)
SetBuildingPanels ==
  /\ \E id \in IdArgs, n \in 0..MaxPanels :
       LET ps == NewPolygons(n)
           created == [Cur EXCEPT !.onMap = @ \cup Range(ps)]
       IN /\ Commit(setBuildingPanels(created, id, ps), "setPanels", id, ps)
          /\ nextPoly' = nextPoly + n
  /\ UNCHANGED <<hasCallback, now, expected>>
  /\ PageUnchanged

SetBuildingBoundary ==
  /\ \E id \in IdArgs :
       LET created == [Cur EXCEPT !.onMap = @ \cup {nextPoly}]
       IN Commit(setBuildingBoundary(created, id, nextPoly), "setBoundary", id, nextPoly)
  /\ nextPoly' = nextPoly + 1
  /\ UNCHANGED <<hasCallback, now, expected>>
  /\ PageUnchanged

Clear ==
  /\ Commit(clear(Cur), "clear", NoId, NoArg)
  /\ expected' = 0
  /\ UNCHANGED <<hasCallback, now, nextPoly>>
  /\ PageUnchanged

NoClicks == [i \in 1..MaxClicks |-> [pc |-> "idle", clickedLocation |-> DefaultLocation,
                                      address |-> <<>>, buildingInsights |-> 0, buildingId |-> NoId]]

Init ==
  /\ buildings = <<>>
  /\ hasCallback \in BOOLEAN
  /\ now = 0
  /\ nextPoly = 1
  /\ onMap = {}
  /\ detached = {}
  /\ lostRefs = {}
  /\ calls = 0
  /\ expected = 0
  /\ op = [name |-> "new", id |-> NoId, arg |-> NoArg]
  /\ ret = [ok |-> TRUE, id |-> NoId]
  /\ notifs = <<>>
  /\ clicks = NoClicks
  /\ selectedBuildingId = NoId
  /\ selectedBuildings = <<>>
  /\ showPanels = TRUE
  /\ pageLocation = DefaultLocation
  /\ lookups = 0
  /\ panelCapacityWattsInput = 250
  /\ editingNickname = NoId
  /\ tempNickname = <<>>
  /\ requestSent = FALSE
  /\ requested = DefaultLocation
  /\ buildingInsights = NoInsights
  /\ requestError = FALSE

Next ==
  \/ AddBuilding
  \/ RemoveBuilding
  \/ UpdateBuildingConfig
  \/ UpdateBuildingNickname
  \/ ToggleBuildingActive
  \/ SetBuildingPanels
  \/ SetBuildingBoundary
  \/ Clear

Spec == Init /\ [][Next]_vars

----------------------------------------------------------------------------
(* Callers that also ask.  A query is one more call; it assigns no field    *)
(* of the manager and calls no setMap.                                      *)

(* panelCapacityRatio and dcToAcDerate: the defaults 1.0 and 0.85, the      *)
(* doubled ratio, and a ratio that leaves halves to floor.                  *)
AggregateArgs ==
  { [panelCapacityRatio |-> Num(1), dcToAcDerate |-> Rat(17, 20)],
    [panelCapacityRatio |-> Num(2), dcToAcDerate |-> Rat(17, 20)],
    [panelCapacityRatio |-> Rat(3, 2), dcToAcDerate |-> Num(1)] }

ThresholdArgs == {DefaultThreshold, 0, -DefaultThreshold}

(* A query that ends with this.notifyUpdate() *)
QueryNotifies(name, id, arg, r) ==
  /\ calls < MaxCalls
  /\ calls' = calls + 1
  /\ op' = [name |-> name, id |-> id, arg |-> arg]
  /\ ret' = r
  /\ notifs' = notifyUpdate(Cur).notifs
  /\ UNCHANGED <<buildings, hasCallback, now, nextPoly, onMap, detached, lostRefs, expected>>
  /\ PageUnchanged

Query(name, id, arg, r) ==
  /\ calls < MaxCalls
  /\ calls' = calls + 1
  /\ op' = [name |-> name, id |-> id, arg |-> arg]
  /\ ret' = r
  /\ notifs' = <<>>
  /\ UNCHANGED <<buildings, hasCallback, now, nextPoly, onMap, detached, lostRefs, expected>>
  /\ PageUnchanged

GetBuilding ==
  \E id \in IdArgs :
    Query("get", id, NoArg, [ok |-> TRUE, id |-> NoId, value |-> getBuilding(Cur, id)])

GetAllBuildings ==
  Query("all", NoId, NoArg, [ok |-> TRUE, id |-> NoId, value |-> getAllBuildings(Cur)])

GetActiveBuildings ==
  Query("active", NoId, NoArg, [ok |-> TRUE, id |-> NoId, value |-> getActiveBuildings(Cur)])

HasBuilding ==
  \E l \in Locations, threshold \in ThresholdArgs :
    Query("proximityMatch", NoId, [location |-> l, threshold |-> threshold],
          [ok |-> TRUE, id |-> hasBuilding(Cur, l, threshold), value |-> <<>>])

GetAggregatedData ==
  \E a \in AggregateArgs :
    LET r == getAggregatedData(Cur, a.panelCapacityRatio, a.dcToAcDerate)
    IN Query("aggregate", NoId, a, [ok |-> r.ok, id |-> NoId, value |-> r])

(* A caller that selects buildings, picks configurations, switches entries  *)
(* on and off, and reads the totals, as AggregatedSummary does              *)
NextAggregate ==
  \/ AddBuilding
  \/ UpdateBuildingConfig
  \/ ToggleBuildingActive
  \/ GetAggregatedData

SpecAggregate == Init /\ [][NextAggregate]_vars

(* utils.ts findSolarConfig: Array.prototype.findIndex with the predicate   *)
(* config.yearlyEnergyDcKwh * panelCapacityRatio * dcToAcDerate >=          *)
(* yearlyKwhEnergyConsumption                                               *)
RECURSIVE findIndexFrom(_, _, _, _, _)
findIndexFrom(solarPanelConfigs, k, yearlyKwhEnergyConsumption, panelCapacityRatio, dcToAcDerate) ==
  IF k > Len(solarPanelConfigs) THEN -1
  ELSE LET yield == RatMul(RatMul(Num(solarPanelConfigs[k].yearlyEnergyDcKwh), panelCapacityRatio),
                           dcToAcDerate)
       IN IF yield.num >= yearlyKwhEnergyConsumption * yield.den
          THEN k - 1
          ELSE findIndexFrom(solarPanelConfigs, k + 1, yearlyKwhEnergyConsumption,
                             panelCapacityRatio, dcToAcDerate)

(* findSolarConfig with > in the place of >= *)
RECURSIVE findIndexAbove(_, _, _, _, _)
findIndexAbove(solarPanelConfigs, k, yearlyKwhEnergyConsumption, panelCapacityRatio, dcToAcDerate) ==
  IF k > Len(solarPanelConfigs) THEN -1
  ELSE LET yield == RatMul(RatMul(Num(solarPanelConfigs[k].yearlyEnergyDcKwh), panelCapacityRatio),
                           dcToAcDerate)
       IN IF yield.num > yearlyKwhEnergyConsumption * yield.den
          THEN k - 1
          ELSE findIndexAbove(solarPanelConfigs, k + 1, yearlyKwhEnergyConsumption,
                              panelCapacityRatio, dcToAcDerate)

findSolarConfigAbove(solarPanelConfigs, yearlyKwhEnergyConsumption, panelCapacityRatio, dcToAcDerate) ==
  findIndexAbove(solarPanelConfigs, 1, yearlyKwhEnergyConsumption, panelCapacityRatio, dcToAcDerate)

findSolarConfig(solarPanelConfigs, yearlyKwhEnergyConsumption, panelCapacityRatio, dcToAcDerate) ==
  findIndexFrom(solarPanelConfigs, 1, yearlyKwhEnergyConsumption, panelCapacityRatio, dcToAcDerate)

(* The lists of configurations, in any order of their yields, and the       *)
(* yearly consumptions a caller asks for                                    *)
YieldArgs == {1000, 2000, 3000}
ConfigLists ==
  UNION { [1..n -> { [panelsCount |-> e \div 400, yearlyEnergyDcKwh |-> e] : e \in YieldArgs }]
            : n \in 0..MaxConfigs }
ConsumptionArgs == {0, 1700, 2550, 2551, 9000}

FindSolarConfig ==
  /\ \E solarPanelConfigs \in ConfigLists, consumption \in ConsumptionArgs, a \in AggregateArgs :
       /\ op' = [name |-> "findSolarConfig", id |-> NoId,
                 arg |-> [solarPanelConfigs |-> solarPanelConfigs,
                          yearlyKwhEnergyConsumption |-> consumption,
                          panelCapacityRatio |-> a.panelCapacityRatio,
                          dcToAcDerate |-> a.dcToAcDerate]]
       /\ ret' = [ok |-> TRUE, id |-> NoId,
                  value |-> findSolarConfig(solarPanelConfigs, consumption,
                                            a.panelCapacityRatio, a.dcToAcDerate)]
  /\ UNCHANGED <<buildings, hasCallback, now, nextPoly, onMap, detached, lostRefs, calls,
                 expected, notifs>>
  /\ PageUnchanged

NextConfig == FindSolarConfig

SpecConfig == Init /\ [][NextConfig]_vars

(* A caller that selects one building at a time, under any address made of  *)
(* a digit, a letter, a blank and a comma, and lets the manager name it     *)
AddressChars == {"7", "a", " ", ","}

Addresses == UNION { [1..n -> AddressChars] : n \in 0..MaxAddress }

AddFirstBuilding ==
  /\ buildings = <<>>
  /\ \E address \in Addresses :
       LET a == [buildingInsights |-> 1, location |-> DefaultLocation, address |-> address,
                 hasConfigId |-> FALSE, configId |-> 0, hasNickname |-> FALSE, nickname |-> <<>>]
       IN Commit(addBuilding(Cur, a, now), "add", NoId, a)
  /\ expected' = expected + 1
  /\ UNCHANGED <<hasCallback, now, nextPoly>>
  /\ PageUnchanged

NextNickname ==
  \/ AddFirstBuilding
  \/ Clear

SpecNickname == Init /\ [][NextNickname]_vars

(* A caller that uses every query *)
NextQuery ==
  \/ AddBuilding
  \/ RemoveBuilding
  \/ UpdateBuildingConfig
  \/ ToggleBuildingActive
  \/ SetBuildingBoundary
  \/ GetBuilding
  \/ GetAllBuildings
  \/ GetActiveBuildings
  \/ HasBuilding
  \/ GetAggregatedData

SpecQuery == Init /\ [][NextQuery]_vars

----------------------------------------------------------------------------
(* +page.svelte: the manager is constructed with the callback               *)
(* (buildings) => { selectedBuildings = buildings }, and every map click    *)
(* starts an async handler.  A handler runs from one await to the next      *)
(* without interruption.                                                    *)

----------------------------------------------------------------------------
(* BuildingInsightsSection.svelte: $: showSolarPotential(location) runs     *)
(* whenever the page assigns location (the click listener, the search bar). *)
(* The polygons this section draws for the one building it shows are its    *)
(* own; they are not handed to the manager and are not part of onMap.       *)

(* A step of a section that calls no method of the manager *)
SectionStep(name) ==
  /\ op' = [name |-> name, id |-> NoId, arg |-> NoArg]
  /\ ret' = [ok |-> TRUE, id |-> NoId]
  /\ notifs' = <<>>
  /\ UNCHANGED <<buildings, hasCallback, now, nextPoly, onMap, detached, lostRefs, expected,
                 clicks, selectedBuildingId, selectedBuildings, showPanels, lookups,
                 panelCapacityWattsInput, editingNickname, tempNickname>>

(* location = l, then showSolarPotential(location) up to its await: it      *)
(* returns at once while requestSent is set                                 *)
SetLocation ==
  /\ calls < MaxCalls
  /\ calls' = calls + 1
  /\ \E l \in Locations :
       /\ pageLocation' = l
       /\ IF requestSent
          THEN UNCHANGED <<requestSent, requested, buildingInsights, requestError>>
          ELSE /\ buildingInsights' = NoInsights
               /\ requestError' = FALSE
               /\ requestSent' = TRUE
               /\ requested' = l
  /\ SectionStep("setLocation")

(* findClosestBuilding resolves: buildingInsights is assigned, the finally  *)
(* block resets requestSent                                                 *)
RequestSucceeds ==
  /\ requestSent
  /\ \E k \in InsightIds : buildingInsights' = [location |-> requested, insights |-> k]
  /\ requestSent' = FALSE
  /\ SectionStep("requestSucceeded")
  /\ UNCHANGED <<calls, pageLocation, requested, requestError>>

(* findClosestBuilding rejects: requestError is assigned, the finally block *)
(* resets requestSent                                                       *)
RequestFails ==
  /\ requestSent
  /\ requestError' = TRUE
  /\ requestSent' = FALSE
  /\ SectionStep("requestFailed")
  /\ UNCHANGED <<calls, pageLocation, requested, buildingInsights>>

NextInsights ==
  \/ SetLocation
  \/ RequestSucceeds
  \/ RequestFails

SpecInsights == Init /\ [][NextInsights]_vars

(* polygon.setMap(map) *)
setMapShown(st, ps) == [st EXCEPT !.onMap = @ \cup ps, !.detached = @ \ ps]

(* The sum of a sequence of numbers *)
RECURSIVE SumSeq(_)
SumSeq(s) == IF s = <<>> THEN 0 ELSE Head(s) + SumSeq(Tail(s))

(* MultiBuildingSection.svelte: panelCapacityRatio, the input over the mean  *)
(* default capacity of the listed buildings                                  *)
panelCapacityRatio(listed, watts) ==
  Rat(watts * Len(listed),
      SumSeq([i \in 1..Len(listed) |->
                Insights(listed[i].buildingInsights).panelCapacityWatts]))

(* The reactive block on selectedBuildings, map, showPanels and the ratio:   *)
(* for each listed building with panels, panel i is put on the map when      *)
(* showPanels, the building is active and i is below                         *)
(* floor(config.panelsCount * ratio), and taken off it otherwise. The listed *)
(* objects are the registry's own, so their fields are read as they are now. *)
(* A building whose configId selects nothing throws and ends the block.      *)
RECURSIVE showListedPanels(_, _, _, _)
showListedPanels(st, listed, show, ratio) ==
  IF listed = <<>> THEN st
  ELSE LET building == IF mapHas(st.buildings, Head(listed).id)
                       THEN mapGet(st.buildings, Head(listed).id) ELSE Head(listed)
           config == configOf(building)
       IN IF building.panels = <<>> THEN showListedPanels(st, Tail(listed), show, ratio)
          ELSE IF config = <<>> THEN st
          ELSE LET limit == Floor(RatMul(Num(config[1].panelsCount), ratio))
                   shown == { building.panels[i] : i \in { j \in 1..Len(building.panels) :
                                show /\ building.isActive /\ j - 1 < limit } }
               IN showListedPanels(setMapShown(setMapNull(st, Range(building.panels) \ shown),
                                               shown),
                                   Tail(listed), show, ratio)

updatePanelVisibility(st, listed, show, watts) ==
  IF listed = <<>> THEN st
  ELSE showListedPanels(st, listed, show, panelCapacityRatio(listed, watts))

PageApply(r, name, id, arg) ==
  LET listed == IF r.st.notifs # <<>> THEN r.st.notifs[Len(r.st.notifs)].buildings
                ELSE selectedBuildings
      st == IF r.st.notifs # <<>>
            THEN updatePanelVisibility(r.st, listed, showPanels, panelCapacityWattsInput)
            ELSE r.st
  IN /\ Apply([r EXCEPT !.st = st], name, id, arg)
     /\ selectedBuildings' = listed

NoCall(name) ==
  /\ UNCHANGED <<buildings, onMap, detached, lostRefs, selectedBuildings>>
  /\ notifs' = <<>>
  /\ ret' = [ok |-> TRUE, id |-> NoId]
  /\ op' = [name |-> name, id |-> NoId, arg |-> NoArg]

(* The listener without the early return of the duplicate branch *)
MapClickFallsThrough(i) ==
  /\ clicks[i].pc = "idle"
  /\ \E l \in Locations :
       LET existingBuildingId == hasBuilding(Cur, l, DefaultThreshold)
       IN /\ selectedBuildingId' =
               IF existingBuildingId # NoId THEN existingBuildingId ELSE selectedBuildingId
          /\ clicks' = [clicks EXCEPT ![i].pc = "geocoding", ![i].clickedLocation = l]
          /\ lookups' = lookups + 1
  /\ NoCall("click")
  /\ SectionsUnchanged
  /\ UNCHANGED <<hasCallback, now, nextPoly, calls, expected, showPanels, pageLocation>>

(* The listener up to its first await: hasBuilding(clickedLocation, 0.0001), *)
(* then either select the entry found or start the reverse geocoding.        *)
MapClick(i) ==
  /\ clicks[i].pc = "idle"
  /\ \E l \in Locations :
       LET existingBuildingId == hasBuilding(Cur, l, DefaultThreshold)
       IN IF existingBuildingId # NoId
          THEN /\ selectedBuildingId' = existingBuildingId
               /\ clicks' = [clicks EXCEPT ![i].pc = "done", ![i].clickedLocation = l]
               /\ lookups' = lookups
          ELSE /\ selectedBuildingId' = selectedBuildingId
               /\ clicks' = [clicks EXCEPT ![i].pc = "geocoding", ![i].clickedLocation = l]
               /\ lookups' = lookups + 1
  /\ NoCall("click")
  /\ SectionsUnchanged
  /\ UNCHANGED <<hasCallback, now, nextPoly, calls, expected, showPanels, pageLocation>>

(* geocoder.geocode resolves with a result: go on to import('./solar') and  *)
(* findClosestBuilding.                                                     *)
GeocodeOk(i) ==
  /\ clicks[i].pc = "geocoding"
  /\ clicks' = [clicks EXCEPT ![i].pc = "fetching", ![i].address = Addr12a]
  /\ lookups' = lookups + 1
  /\ NoCall("geocoded")
  /\ SectionsUnchanged
  /\ UNCHANGED <<hasCallback, now, nextPoly, calls, expected, selectedBuildingId, showPanels, pageLocation>>

(* geocoder.geocode resolves with no result: the handler ends *)
GeocodeEmpty(i) ==
  /\ clicks[i].pc = "geocoding"
  /\ clicks' = [clicks EXCEPT ![i].pc = "done"]
  /\ NoCall("geocodeEmpty")
  /\ SectionsUnchanged
  /\ UNCHANGED <<hasCallback, now, nextPoly, calls, expected, selectedBuildingId, showPanels,
                 pageLocation, lookups>>

(* geocoder.geocode rejects: the outer catch sets location *)
GeocodeFail(i) ==
  /\ clicks[i].pc = "geocoding"
  /\ clicks' = [clicks EXCEPT ![i].pc = "done"]
  /\ pageLocation' = clicks[i].clickedLocation
  /\ NoCall("geocodeFail")
  /\ SectionsUnchanged
  /\ UNCHANGED <<hasCallback, now, nextPoly, calls, expected, selectedBuildingId, showPanels, lookups>>

(* findClosestBuilding rejects: the inner catch, then location is set *)
(* A listener whose addBuilding call does not wait for findClosestBuilding: *)
(* the entry is added although the lookup rejects.                          *)
SolarFailAfterAdd(i) ==
  /\ clicks[i].pc = "fetching"
  /\ LET a == [buildingInsights |-> 1, location |-> clicks[i].clickedLocation,
               address |-> clicks[i].address, hasConfigId |-> TRUE, configId |-> 0,
               hasNickname |-> FALSE, nickname |-> <<>>]
         r == addBuilding(Cur, a, now)
     IN /\ PageApply([r EXCEPT !.ok = TRUE, !.id = NoId], "solarFail", NoId, NoArg)
        /\ clicks' = [clicks EXCEPT ![i].pc = "done"]
  /\ pageLocation' = clicks[i].clickedLocation
  /\ SectionsUnchanged
  /\ UNCHANGED <<hasCallback, now, nextPoly, calls, expected, selectedBuildingId, showPanels, lookups>>

SolarFail(i) ==
  /\ clicks[i].pc = "fetching"
  /\ clicks' = [clicks EXCEPT ![i].pc = "done"]
  /\ pageLocation' = clicks[i].clickedLocation
  /\ NoCall("solarFail")
  /\ SectionsUnchanged
  /\ UNCHANGED <<hasCallback, now, nextPoly, calls, expected, selectedBuildingId, showPanels, lookups>>

(* findClosestBuilding resolves: addBuilding(buildingInsights,              *)
(* clickedLocation, address, 0), selectedBuildingId = buildingId, then the  *)
(* handler awaits import('./visualize').                                    *)
SolarOk(i) ==
  /\ clicks[i].pc = "fetching"
  /\ \E k \in PageInsightIds, t \in now..MaxTime :
       LET a == [buildingInsights |-> k, location |-> clicks[i].clickedLocation,
                 address |-> clicks[i].address, hasConfigId |-> TRUE, configId |-> 0,
                 hasNickname |-> FALSE, nickname |-> <<>>]
           r == addBuilding(Cur, a, t)
       IN /\ now' = t
          /\ PageApply(r, "add", NoId, a)
          /\ selectedBuildingId' = r.id
          /\ clicks' = [clicks EXCEPT ![i].pc = "added", ![i].buildingInsights = k,
                                      ![i].buildingId = r.id]
  /\ expected' = expected + 1
  /\ SectionsUnchanged
  /\ UNCHANGED <<hasCallback, nextPoly, calls, showPanels, pageLocation, lookups>>

(* After the imports: one polygon per solarPanels element, with             *)
(* map: showPanels ? map : null, setBuildingPanels; the boundary polygon    *)
(* (on the map) and setBuildingBoundary when there is a boundingBox; then   *)
(* location = clickedLocation. The page's script declares no showPanels:    *)
(* where the name resolves to nothing, the first panel's options throw a    *)
(* ReferenceError before any polygon exists, and the catch around the       *)
(* visuals skips setBuildingPanels and the boundary; where it resolves, it  *)
(* is the flag of the sections. Neither registry call notifies, so the      *)
(* reactive block of the section does not run after them.                   *)
AttachVisuals(i) ==
  /\ clicks[i].pc = "added"
  /\ \E resolves \in BOOLEAN :
       LET n == Insights(clicks[i].buildingInsights).solarPanels
           panels == NewPolygons(n)
           s0 == [Cur EXCEPT !.onMap = IF showPanels THEN @ \cup Range(panels) ELSE @]
           r1 == setBuildingPanels(s0, clicks[i].buildingId, panels)
           boundary == nextPoly + n
           s1 == [r1.st EXCEPT !.onMap = @ \cup {boundary}]
           r2 == IF Insights(clicks[i].buildingInsights).hasBoundingBox
                 THEN setBuildingBoundary(s1, clicks[i].buildingId, boundary)
                 ELSE r1
       IN IF n > 0 /\ ~resolves
          THEN /\ NoCall("attachFailed")
               /\ nextPoly' = nextPoly
          ELSE /\ PageApply(r2, "attach", clicks[i].buildingId, NoArg)
               /\ nextPoly' = IF Insights(clicks[i].buildingInsights).hasBoundingBox
                              THEN boundary + 1 ELSE boundary
  /\ clicks' = [clicks EXCEPT ![i].pc = "done"]
  /\ pageLocation' = clicks[i].clickedLocation
  /\ SectionsUnchanged
  /\ UNCHANGED <<hasCallback, now, calls, expected, selectedBuildingId, showPanels, lookups>>

(* MultiBuildingSection.svelte: handleRemoveBuilding on a listed entry *)
HandleRemoveBuilding ==
  /\ \E j \in 1..Len(selectedBuildings) :
       LET r == removeBuilding(Cur, selectedBuildings[j].id)
       IN /\ PageApply(r, "remove", selectedBuildings[j].id, NoArg)
          /\ expected' = IF r.ok THEN expected - 1 ELSE expected
  /\ SectionsUnchanged
  /\ UNCHANGED <<hasCallback, now, nextPoly, calls, clicks, selectedBuildingId, showPanels,
                 pageLocation, lookups>>

(* MultiBuildingSection.svelte: clearAllBuildings, shown while the list is not empty *)
ClearAllBuildings ==
  /\ Len(selectedBuildings) > 0
  /\ PageApply(clear(Cur), "clear", NoId, NoArg)
  /\ expected' = 0
  /\ SectionsUnchanged
  /\ UNCHANGED <<hasCallback, now, nextPoly, calls, clicks, selectedBuildingId, showPanels,
                 pageLocation, lookups>>

(* MultiBuildingSection.svelte: handleToggleBuilding on a listed entry *)
HandleToggleBuilding ==
  /\ \E j \in 1..Len(selectedBuildings) :
       PageApply(toggleBuildingActive(Cur, selectedBuildings[j].id), "toggleActive",
                 selectedBuildings[j].id, NoArg)
  /\ SectionsUnchanged
  /\ UNCHANGED <<hasCallback, now, nextPoly, calls, expected, clicks, selectedBuildingId,
                 showPanels, pageLocation, lookups>>

(* A change of a value the reactive block depends on, made in the section:  *)
(* the block runs with the new values and nothing else happens.             *)
SectionInput(name, show, watts) ==
  /\ Apply([st |-> updatePanelVisibility([Cur EXCEPT !.notifs = <<>>], selectedBuildings,
                                         show, watts),
            ok |-> TRUE, id |-> NoId], name, NoId, NoArg)
  /\ showPanels' = show
  /\ panelCapacityWattsInput' = watts
  /\ UNCHANGED <<hasCallback, now, nextPoly, calls, expected, clicks, selectedBuildingId,
                 selectedBuildings, pageLocation, lookups, editingNickname, tempNickname,
                 requestSent, requested, buildingInsights, requestError>>

(* The InputBool bound to showPanels *)
SetShowPanels ==
  \E show \in BOOLEAN \ {showPanels} :
     SectionInput("showPanels", show, panelCapacityWattsInput)

(* The panel capacity input of the page *)
PanelCapacityArgs == {125, 250, 500}

SetPanelCapacityWatts ==
  \E watts \in PanelCapacityArgs \ {panelCapacityWattsInput} :
     SectionInput("panelCapacity", showPanels, watts)

(* MultiBuildingList: saveNickname(id) is onEditNickname(id, tempNickname),  *)
(* which is handleEditNickname: buildingManager.updateBuildingNickname.      *)
(* times is the number of times the handler runs in the step.                *)
saveNickname(st, id, nickname, times) ==
  IF times = 2
  THEN updateBuildingNickname(updateBuildingNickname(st, id, nickname).st, id, nickname)
  ELSE updateBuildingNickname(st, id, nickname)

(* A step of the list's nickname editor that leaves the registry alone *)
EditOnly(name, id, temp) ==
  /\ NoCall(name)
  /\ editingNickname' = id
  /\ tempNickname' = temp
  /\ UNCHANGED <<hasCallback, now, nextPoly, calls, expected, clicks, selectedBuildingId,
                 showPanels, pageLocation, lookups, panelCapacityWattsInput, requestSent,
                 requested, buildingInsights, requestError>>

(* A step of the list's nickname editor that calls the registry *)
EditStep(r, name, id, temp) ==
  /\ PageApply(r, name, id, temp)
  /\ editingNickname' = NoId
  /\ tempNickname' = temp
  /\ UNCHANGED <<hasCallback, now, nextPoly, calls, expected, clicks, selectedBuildingId,
                 showPanels, pageLocation, lookups, panelCapacityWattsInput, requestSent,
                 requested, buildingInsights, requestError>>

(* A click on the nickname of a listed building: startEditNickname; the     *)
(* input that appears takes the focus.                                      *)
StartEditNickname ==
  /\ editingNickname = NoId
  /\ \E j \in 1..Len(selectedBuildings) :
       EditOnly("startEdit", selectedBuildings[j].id, selectedBuildings[j].nickname)

(* Typing into the input bound to tempNickname *)
TypedNicknames == {NickOffice, NickEmpty}

TypeNickname ==
  /\ editingNickname # NoId
  /\ \E text \in TypedNicknames \ {tempNickname} : EditOnly("type", editingNickname, text)

(* Enter in the input: saveNickname. The focused input then leaves the      *)
(* document with its blur handler still attached; whether a removal fires   *)
(* blur depends on the browser, and where it does saveNickname runs again.  *)
PressEnter ==
  /\ editingNickname # NoId
  /\ \E times \in {1, 2} :
       EditStep(saveNickname(Cur, editingNickname, tempNickname, times), "enter",
                editingNickname, tempNickname)

(* Escape in the input: cancelEdit, which empties tempNickname; where the   *)
(* removal of the focused input fires blur, saveNickname runs with it.      *)
PressEscape ==
  /\ editingNickname # NoId
  /\ \E blurs \in BOOLEAN :
       IF blurs
       THEN EditStep(saveNickname(Cur, editingNickname, <<>>, 1), "escape", editingNickname, <<>>)
       ELSE EditOnly("escape", NoId, <<>>)

(* The focus leaves the input: on:blur is saveNickname *)
BlurInput ==
  /\ editingNickname # NoId
  /\ EditStep(saveNickname(Cur, editingNickname, tempNickname, 1), "blur",
              editingNickname, tempNickname)

(* A click on the save button: pressing the mouse button moves the focus,   *)
(* so the input's blur handler saves first and ends the edit; the button    *)
(* leaves the document with the edit, and if its click still arrives        *)
(* saveNickname runs a second time.                                         *)
ClickSave ==
  /\ editingNickname # NoId
  /\ \E times \in {1, 2} :
       EditStep(saveNickname(Cur, editingNickname, tempNickname, times), "saveClick",
                editingNickname, tempNickname)

(* A click on the cancel button: the input's blur handler saves the pending *)
(* text first; if the click still arrives cancelEdit empties tempNickname.  *)
ClickCancel ==
  /\ editingNickname # NoId
  /\ \E temp \in {tempNickname, <<>>} :
       /\ PageApply(saveNickname(Cur, editingNickname, tempNickname, 1), "cancelClick",
                    editingNickname, tempNickname)
       /\ editingNickname' = NoId
       /\ tempNickname' = temp
  /\ UNCHANGED <<hasCallback, now, nextPoly, calls, expected, clicks, selectedBuildingId,
                 showPanels, pageLocation, lookups, panelCapacityWattsInput, requestSent,
                 requested, buildingInsights, requestError>>

InitClick ==
  /\ buildings = <<>>
  /\ hasCallback = TRUE
  /\ now = 0
  /\ nextPoly = 1
  /\ onMap = {}
  /\ detached = {}
  /\ lostRefs = {}
  /\ calls = 0
  /\ expected = 0
  /\ op = [name |-> "new", id |-> NoId, arg |-> NoArg]
  /\ ret = [ok |-> TRUE, id |-> NoId]
  /\ notifs = <<>>
  /\ clicks = NoClicks
  /\ selectedBuildingId = NoId
  /\ selectedBuildings = <<>>
  /\ showPanels \in BOOLEAN
  /\ pageLocation = DefaultLocation
  /\ lookups = 0
  /\ panelCapacityWattsInput = 250
  /\ editingNickname = NoId
  /\ tempNickname = <<>>
  /\ requestSent = FALSE
  /\ requested = DefaultLocation
  /\ buildingInsights = NoInsights
  /\ requestError = FALSE

NextClick ==
  \/ \E i \in 1..MaxClicks : MapClick(i)
  \/ \E i \in 1..MaxClicks : GeocodeOk(i)
  \/ \E i \in 1..MaxClicks : GeocodeEmpty(i)
  \/ \E i \in 1..MaxClicks : GeocodeFail(i)
  \/ \E i \in 1..MaxClicks : SolarFail(i)
  \/ \E i \in 1..MaxClicks : SolarOk(i)
  \/ \E i \in 1..MaxClicks : AttachVisuals(i)
  \/ HandleRemoveBuilding
  \/ ClearAllBuildings

SpecClick == InitClick /\ [][NextClick]_vars

(* The page with the controls of the section, around one click that finds a *)
(* building: the list's remove and toggle buttons, the panels switch and   *)
(* the capacity input, at any point of the click's flow.                    *)
NextSection ==
  \/ MapClick(1)
  \/ GeocodeOk(1)
  \/ SolarOk(1)
  \/ AttachVisuals(1)
  \/ HandleRemoveBuilding
  \/ HandleToggleBuilding
  \/ SetShowPanels
  \/ SetPanelCapacityWatts

SpecSection == InitClick /\ [][NextSection]_vars

(* The building list with its nickname editor, after one click that finds a *)
(* building.                                                                *)
NextEdit ==
  \/ MapClick(1)
  \/ GeocodeOk(1)
  \/ SolarOk(1)
  \/ StartEditNickname
  \/ TypeNickname
  \/ ClickCancel
  \/ ClickSave
  \/ BlurInput
  \/ PressEnter
  \/ PressEscape

SpecEdit == InitClick /\ [][NextEdit]_vars

----------------------------------------------------------------------------
(* Properties *)

IdOps == {"remove", "updateConfig", "updateNickname", "toggleActive", "setPanels", "setBoundary"}
NotifyingIdOps == {"remove", "updateConfig", "updateNickname", "toggleActive"}

(* C1: the id that add returns differs from the id of every entry that is   *)
(* live when add is called, also when the timestamp equals that of an       *)
(* earlier add.                                                             *)
C1_AddReturnsFreshId ==
  [][op'.name = "add" => ~mapHas(buildings, ret'.id)]_vars

(* C2: all().length equals the number of add calls minus the number of      *)
(* remove calls that returned true, counted since the most recent clear.    *)
C2_LengthIsAddsMinusRemoves ==
  Len(getAllBuildings(Cur)) = expected

(* C3: every polygon that was attached to an entry when the entry left the  *)
(* collection has received setMap(null).                                    *)
C3_GoneEntriesAreDetached ==
  lostRefs \subseteq detached

(* C4: under every interleaving of the map click handlers, the manager      *)
(* never holds two live entries less than 0.0001 degree apart.              *)
C4_NoDuplicateSelection ==
  \A i, j \in 1..Len(buildings) :
    i # j => ~Near(buildings[i].location, buildings[j].location, DefaultThreshold)

(* C5: remove of a live id returns true, makes the list one shorter, makes  *)
(* get(id) absent, and leaves every other entry as it was and in the same   *)
(* relative order.                                                          *)
C5_RemoveLive ==
  [][(op'.name = "remove" /\ mapHas(buildings, op'.id)) =>
       LET k == IndexOf(buildings, op'.id)
       IN /\ ret'.ok
          /\ Len(buildings') = Len(buildings) - 1
          /\ getBuilding([buildings |-> buildings'], op'.id) = <<>>
          /\ \A i \in 1..Len(buildings') :
               buildings'[i] = buildings[IF i < k THEN i ELSE i + 1]]_vars

C5_Witness ==
  /\ op.name = "remove"
  /\ ret.ok
  /\ Len(buildings) = 2
  /\ op.id = StaleId

(* C6: an id-taking operation called with an id that is not live returns    *)
(* false, changes no entry, detaches nothing and notifies nobody; get on    *)
(* that id is absent.                                                       *)
C6_AbsentIdNoEffect ==
  [][(op'.name \in IdOps /\ ~mapHas(buildings, op'.id)) =>
       /\ ret'.ok = FALSE
       /\ buildings' = buildings
       /\ detached' = detached
       /\ notifs' = <<>>
       /\ getBuilding(Cur, op'.id) = <<>>]_vars

C6_Witness ==
  /\ op.name = "updateNickname"
  /\ op.id = StaleId
  /\ ~ret.ok
  /\ Len(buildings) >= 1

(* C7, as claimed: with a callback registered, every call to clear, add,    *)
(* remove, toggleActive, updateConfig or updateNickname invokes it exactly  *)
(* once, and no call to setPanels or setBoundary invokes it.                *)
C7_EveryCallNotifiesOnce ==
  hasCallback =>
    /\ op.name \in {"clear", "add"} \cup NotifyingIdOps => Len(notifs) = 1
    /\ op.name \in {"setPanels", "setBoundary"} => Len(notifs) = 0

(* C7, amended: with a callback registered, every call to clear or add and  *)
(* every call to remove, toggleActive, updateConfig or updateNickname with  *)
(* a live id invokes it exactly once; such a call with an id that is not    *)
(* live, and every call to setPanels or setBoundary, does not invoke it.    *)
C7_LiveCallNotifiesOnce ==
  [][hasCallback =>
       /\ op'.name \in {"clear", "add"} => Len(notifs') = 1
       /\ op'.name \in NotifyingIdOps =>
            Len(notifs') = IF mapHas(buildings, op'.id) THEN 1 ELSE 0
       /\ op'.name \in {"setPanels", "setBoundary"} => Len(notifs') = 0]_vars

C7_Witness ==
  /\ hasCallback
  /\ op.name = "toggleActive"
  /\ ret.ok
  /\ Len(notifs) = 1

(* C8: a notification carries the whole collection as it is right after the *)
(* mutation: the sequence handed to the callback equals all().              *)
C8_NotificationIsPostState ==
  \A k \in 1..Len(notifs) : notifs[k].buildings = getAllBuildings(Cur)

C8_Witness ==
  /\ op.name = "remove"
  /\ ret.ok
  /\ Len(notifs) = 1
  /\ Len(buildings) = 1

(* C9: when the observer is invoked for a remove, the removed entry is not  *)
(* in the sequence it gets, and the entry's boundary and panels have        *)
(* already received setMap(null).                                           *)
C9_RemoveOrder ==
  [][(op'.name = "remove" /\ mapHas(buildings, op'.id) /\ hasCallback) =>
       /\ Len(notifs') = 1
       /\ ~mapHas(notifs'[1].buildings, op'.id)
       /\ RefsOf(mapGet(buildings, op'.id)) \subseteq notifs'[1].detached]_vars

C9_Witness ==
  /\ op.name = "remove"
  /\ ret.ok
  /\ Len(notifs) = 1
  /\ Cardinality(notifs[1].detached) >= 2

(* C10: clear detaches the boundary and every panel of every live entry,    *)
(* leaves all() empty and, with a callback registered, notifies exactly     *)
(* once with the empty sequence, however many entries were live.            *)
C10_Clear ==
  [][op'.name = "clear" =>
       /\ buildings' = <<>>
       /\ \A i \in 1..Len(buildings) : RefsOf(buildings[i]) \subseteq detached'
       /\ hasCallback => (Len(notifs') = 1 /\ notifs'[1].buildings = <<>>)]_vars

C10_Witness ==
  /\ op.name = "clear"
  /\ hasCallback
  /\ Len(notifs) = 1
  /\ Cardinality(detached) >= 2
  /\ buildings = <<>>

(* C11: toggleActive on a live id flips isActive, and a second call right   *)
(* after it restores the value; an entry that add has just created is       *)
(* active.                                                                  *)
C11_ToggleInvolution ==
  [][/\ op'.name = "add" => mapGet(buildings', ret'.id).isActive
     /\ (op'.name = "toggleActive" /\ mapHas(buildings, op'.id)) =>
          LET before == mapGet(buildings, op'.id).isActive
              again == toggleBuildingActive(Cur', op'.id)
          IN /\ mapGet(buildings', op'.id).isActive = ~before
             /\ again.ok
             /\ mapGet(again.st.buildings, op'.id).isActive = before]_vars

(* The second of two toggles: the entry is active again *)
C11_Witness ==
  /\ op.name = "toggleActive"
  /\ ret.ok
  /\ calls = 3
  /\ Len(buildings) = 1
  /\ mapGet(buildings, op.id).isActive

RECURSIVE ScaledPanels(_, _)
ScaledPanels(bs, ratio) ==
  IF bs = <<>> THEN [num |-> 0, den |-> 1]
  ELSE LET count == Insights(Head(bs).buildingInsights)
                      .solarPanelConfigs[Head(bs).configId + 1].panelsCount
       IN RatAdd(Rat(count * ratio.num, ratio.den), ScaledPanels(Tail(bs), ratio))

(* The sum over the active entries b[1..n] of floor(panelsCount x ratio) *)
RECURSIVE FlooredPanels(_, _)
FlooredPanels(bs, ratio) ==
  IF bs = <<>> THEN 0
  ELSE LET count == Insights(Head(bs).buildingInsights)
                      .solarPanelConfigs[Head(bs).configId + 1].panelsCount
       IN ((count * ratio.num) \div ratio.den) + FlooredPanels(Tail(bs), ratio)

(* The panelsCount of the configurations the active entries select *)
SelectedCounts ==
  LET IsActive(b) == b.isActive
      bs == SelectSeq(buildings, IsActive)
  IN [i \in 1..Len(bs) |->
        Insights(bs[i].buildingInsights).solarPanelConfigs[bs[i].configId + 1].panelsCount]

C15_DoubleRatioDoubles ==
  (op.name = "aggregate" /\ ret.ok /\ op.arg.panelCapacityRatio = [num |-> 2, den |-> 1]) =>
    LET once == getAggregatedData(Cur, [num |-> 1, den |-> 1], op.arg.dcToAcDerate)
        twice == ret.value
    IN /\ once.ok
       /\ twice.totalYearlyEnergyDcKwh.num * once.totalYearlyEnergyDcKwh.den
            = 2 * once.totalYearlyEnergyDcKwh.num * twice.totalYearlyEnergyDcKwh.den
       /\ twice.totalPanelsCount = 2 * once.totalPanelsCount
       /\ (SelectedCounts = <<50>> /\ op.arg.dcToAcDerate = [num |-> 17, den |-> 20]) =>
            /\ once.totalYearlyEnergyDcKwh = [num |-> 17000, den |-> 1]
            /\ once.totalPanelsCount = 50
            /\ twice.totalYearlyEnergyDcKwh = [num |-> 34000, den |-> 1]
            /\ twice.totalPanelsCount = 100

(* aggregate(2.0, 0.85) on two active entries, one of them with the odd     *)
(* yield 3001                                                               *)
C15_Witness ==
  /\ op.name = "aggregate"
  /\ ret.ok
  /\ op.arg.panelCapacityRatio = [num |-> 2, den |-> 1]
  /\ SelectedCounts = <<50, 7>>
  /\ ret.value.totalPanelsCount = 114
  /\ ret.value.totalYearlyEnergyDcKwh = [num |-> 391017, den |-> 10]

(* C16: updateConfig on a live id stores whatever configId it is given and  *)
(* returns true; aggregate then throws exactly when some active entry's     *)
(* configId is outside 0 .. (number of configurations - 1), and a call that *)
(* throws changes nothing and notifies nobody.                              *)
C16_BadConfigFaultsAggregate ==
  [][/\ (op'.name = "updateConfig" /\ mapHas(buildings, op'.id)) =>
          /\ ret'.ok
          /\ mapGet(buildings', op'.id).configId = op'.arg
     /\ op'.name = "aggregate" =>
          /\ ~ret'.ok <=>
               \E i \in 1..Len(buildings) :
                 /\ buildings[i].isActive
                 /\ \/ buildings[i].configId < 0
                    \/ buildings[i].configId
                         >= Len(Insights(buildings[i].buildingInsights).solarPanelConfigs)
          /\ ~ret'.ok =>
               /\ ret'.value = [ok |-> FALSE]
               /\ buildings' = buildings
               /\ onMap' = onMap
               /\ detached' = detached
               /\ notifs' = <<>>]_vars

(* aggregate throws on the second of two active entries *)
C16_Witness ==
  /\ op.name = "aggregate"
  /\ ~ret.ok
  /\ Len(buildings) = 2
  /\ buildings[1].configId = 0
  /\ buildings[2].configId = 3
  /\ buildings[2].isActive

(* C17: proximityMatch(location, threshold) returns the id of the first     *)
(* live entry in insertion order, active or not, with                       *)
(* dlat^2 + dlng^2 < threshold^2 and threshold > 0, and returns absent      *)
(* when there is no such entry: at distance exactly threshold, for          *)
(* threshold <= 0, on the empty registry.                                   *)
C17_ProximityMatch ==
  op.name = "proximityMatch" =>
    LET location == op.arg.location
        threshold == op.arg.threshold
        Within(b) ==
          /\ threshold > 0
          /\ (location.lat - b.location.lat) * (location.lat - b.location.lat)
               + (location.lng - b.location.lng) * (location.lng - b.location.lng)
               < threshold * threshold
        matches == { i \in 1..Len(buildings) : Within(buildings[i]) }
    IN IF matches = {}
       THEN ret.id = NoId
       ELSE \E i \in matches :
              /\ \A j \in matches : i <= j
              /\ ret.id = buildings[i].id

(* Two live entries within the threshold, the first of them inactive: the   *)
(* first one is returned                                                   *)
C17_Witness ==
  /\ op.name = "proximityMatch"
  /\ op.arg.threshold = DefaultThreshold
  /\ Len(buildings) = 2
  /\ ~buildings[1].isActive
  /\ buildings[1].id # buildings[2].id
  /\ Near(op.arg.location, buildings[2].location, DefaultThreshold)
  /\ ret.id = buildings[1].id

InPlaceOps == {"updateConfig", "updateNickname", "toggleActive", "setPanels", "setBoundary"}

Ids(bs) == [i \in 1..Len(bs) |-> bs[i].id]

(* C18: all() lists the live entries in the order of the add calls that     *)
(* created them: add puts the entry it creates after every entry that is    *)
(* already there, and no other operation changes the relative order;        *)
(* active() is the subsequence of all() with isActive; updateConfig,        *)
(* updateNickname, toggleActive, setPanels and setBoundary keep every       *)
(* entry's position.                                                        *)
C18_InsertionOrder ==
  [][/\ op'.name = "add" =>
          getAllBuildings(Cur') = Append(getAllBuildings(Cur), mapGet(buildings', ret'.id))
     /\ op'.name = "remove" =>
          Ids(getAllBuildings(Cur'))
            = LET Kept(id) == id # op'.id IN SelectSeq(Ids(getAllBuildings(Cur)), Kept)
     /\ op'.name \in InPlaceOps => Ids(getAllBuildings(Cur')) = Ids(getAllBuildings(Cur))
     /\ getActiveBuildings(Cur')
          = LET IsActive(b) == b.isActive IN SelectSeq(getAllBuildings(Cur'), IsActive)]_vars

QueryOps == {"get", "all", "active", "proximityMatch", "aggregate"}

(* C19: get, all, active, proximityMatch and aggregate leave the            *)
(* collection, every field of every entry and the polygons on the map as    *)
(* they are, call setMap(null) on nothing and do not invoke the callback.   *)
C19_QueriesChangeNothing ==
  [][op'.name \in QueryOps =>
       /\ getAllBuildings(Cur') = getAllBuildings(Cur)
       /\ onMap' = onMap
       /\ detached' = detached
       /\ lostRefs' = lostRefs
       /\ notifs' = <<>>]_vars

(* aggregate on a registry with a callback, an inactive entry and a         *)
(* boundary polygon on the map                                              *)
C19_Witness ==
  /\ op.name = "aggregate"
  /\ hasCallback
  /\ Len(buildings) = 1
  /\ ~buildings[1].isActive
  /\ buildings[1].boundary # NoPoly
  /\ buildings[1].boundary \in onMap

(* C20: a registry constructed without a callback behaves as one            *)
(* constructed with a callback: from the same state, the same call with     *)
(* the same arguments at the same time returns the same value and leaves    *)
(* the same collection and the same polygons, and without a callback        *)
(* nothing is invoked.  Both registries start empty, so this carries over   *)
(* to every sequence of calls.                                              *)
C20_CallbackOnlyObserves ==
  [][\A twin \in {Call([Cur EXCEPT !.hasCallback = ~hasCallback], op', now')} :
       /\ twin.ok = ret'.ok
       /\ twin.id = ret'.id
       /\ twin.st.buildings = buildings'
       /\ twin.st.onMap = onMap'
       /\ twin.st.detached = detached'
       /\ twin.st.lostRefs = lostRefs'
       /\ (IF hasCallback THEN twin.st.notifs ELSE notifs') = <<>>]_vars

(* remove of an entry with a boundary on a registry without a callback *)
C20_Witness ==
  /\ ~hasCallback
  /\ op.name = "remove"
  /\ ret.ok
  /\ detached # {}
  /\ Len(buildings) = 1
  /\ notifs = <<>>

(* C21: add never fails, and get(returned id) is then an entry that is      *)
(* active, has no panels and no boundary, has the insights, location and    *)
(* address that were given, and has the given configId, or 0 when none was  *)
(* given.                                                                   *)
C21_AddInsertsFreshEntry ==
  [][op'.name = "add" =>
       /\ ret'.ok
       /\ \A found \in {getBuilding(Cur', ret'.id)} :
            /\ found # <<>>
            /\ found[1].id = ret'.id
            /\ found[1].isActive
            /\ found[1].panels = <<>>
            /\ found[1].boundary = NoPoly
            /\ found[1].buildingInsights = op'.arg.buildingInsights
            /\ found[1].location = op'.arg.location
            /\ found[1].address = op'.arg.address
            /\ found[1].configId = IF op'.arg.hasConfigId THEN op'.arg.configId ELSE 0]_vars

(* add without a configId, next to an entry that already has polygons *)
C21_Witness ==
  /\ op.name = "add"
  /\ ~op.arg.hasConfigId
  /\ Len(buildings) = 2
  /\ buildings[1].panels # <<>>
  /\ mapGet(buildings, ret.id).configId = 0

(* C22: whenever add is given a nickname, the empty string included, the    *)
(* new entry's nickname is that argument; the nickname derived from the     *)
(* address is used only when no nickname is given.                          *)
C22_GivenNicknameIsKept ==
  [][op'.name = "add" =>
       mapGet(buildings', ret'.id).nickname
         = IF op'.arg.hasNickname THEN op'.arg.nickname
           ELSE generateNickname(op'.arg.address)]_vars

(* The token the text starts with: its leading digits and one letter after  *)
(* them, <<>> when it does not start with a digit                           *)
LeadingToken(parts) ==
  IF parts = <<>> \/ parts[1] \notin Digits THEN <<>>
  ELSE LET last == CHOOSE k \in 1..Len(parts) :
                     /\ \A m \in 1..k : parts[m] \in Digits
                     /\ k = Len(parts) \/ parts[k + 1] \notin Digits
       IN IF last < Len(parts) /\ parts[last + 1] \in Letters
          THEN SubSeq(parts, 1, last + 1) ELSE SubSeq(parts, 1, last)

(* The text from its first digit on, <<>> when it has no digit *)
FromFirstDigit(parts) ==
  IF \A i \in 1..Len(parts) : parts[i] \notin Digits THEN <<>>
  ELSE LET first == CHOOSE i \in 1..Len(parts) :
                      /\ parts[i] \in Digits
                      /\ \A j \in 1..(i - 1) : parts[j] \notin Digits
       IN SubSeq(parts, first, Len(parts))

(* C23, as claimed: add without a nickname takes the text before the first  *)
(* comma, trimmed; when it starts with a numeric token (digits, then at     *)
(* most one letter) the nickname is "Building {token}", otherwise it is     *)
(* "Building".                                                              *)
C23_LeadingTokenNickname ==
  (op.name = "add" /\ ~op.arg.hasNickname) =>
    \A token \in {LeadingToken(Trim(BeforeComma(op.arg.address)))} :
      mapGet(buildings, ret.id).nickname
        = IF token # <<>>
          THEN <<"B", "u", "i", "l", "d", "i", "n", "g", " ">> \o token
          ELSE <<"B", "u", "i", "l", "d", "i", "n", "g">>

(* C23, amended: add without a nickname takes the text before the first     *)
(* comma; when it has a digit anywhere, the nickname is "Gebäude {token}"   *)
(* with the token that starts at its first digit (the digits, then at most  *)
(* one letter), otherwise it is "Gebäude".                                  *)
C23_FirstTokenNickname ==
  (op.name = "add" /\ ~op.arg.hasNickname) =>
    \A token \in {LeadingToken(FromFirstDigit(BeforeComma(op.arg.address)))} :
      mapGet(buildings, ret.id).nickname
        = IF token # <<>>
          THEN <<"G", "e", "b", "ä", "u", "d", "e", " ">> \o token
          ELSE <<"G", "e", "b", "ä", "u", "d", "e">>

(* The address "a 7a": the token comes after a word *)
C23_Witness ==
  /\ op.name = "add"
  /\ ~op.arg.hasNickname
  /\ op.arg.address = <<"a", " ", "7", "a">>
  /\ mapGet(buildings, ret.id).nickname = <<"G", "e", "b", "ä", "u", "d", "e", " ", "7", "a">>


(* C24: setPanels and setBoundary on a live id return true and store the    *)
(* given panel list or boundary in that entry; the polygons that were       *)
(* stored before stay on the map (no setMap(null) is sent), no other field  *)
(* and no other entry changes, and the callback is not invoked.             *)
C24_SettersOnlySetTheirField ==
  [][(op'.name \in {"setPanels", "setBoundary"} /\ mapHas(buildings, op'.id)) =>
       /\ ret'.ok
       /\ Len(buildings') = Len(buildings)
       /\ \A i \in 1..Len(buildings) :
            buildings'[i] =
              IF buildings[i].id # op'.id THEN buildings[i]
              ELSE IF op'.name = "setPanels"
                   THEN [buildings[i] EXCEPT !.panels = op'.arg]
                   ELSE [buildings[i] EXCEPT !.boundary = op'.arg]
       /\ detached' = detached
       /\ onMap \subseteq onMap'
       /\ notifs' = <<>>]_vars

(* Two panels were stored, then one panel replaced them: all three are on   *)
(* the map.                                                                 *)
C24_Witness ==
  /\ op.name = "setPanels" /\ ret.ok
  /\ calls = 3
  /\ Len(buildings) = 1
  /\ buildings[1].id = StaleId
  /\ buildings[1].panels = <<3>>
  /\ buildings[1].boundary = NoPoly
  /\ onMap = {1, 2, 3}
  /\ detached = {}


(* C25: while an id stays live, the id, insights and location of its entry  *)
(* are the ones of the add call that first returned the id, whatever calls  *)
(* follow (further add calls included): no step changes these three fields  *)
(* of an entry whose id is live before and after it.                        *)
C25_IdentityFieldsAreStable ==
  [][\A i \in 1..Len(buildings) :
       mapHas(buildings', buildings[i].id) =>
         \A kept \in {mapGet(buildings', buildings[i].id)} :
           /\ kept.id = buildings[i].id
           /\ kept.buildingInsights = buildings[i].buildingInsights
           /\ kept.location = buildings[i].location]_vars


(* The steps in which a lookup of a map click fails *)
FailedLookups == {"geocodeEmpty", "geocodeFail", "solarFail"}

(* C26: when the reverse geocoding of a map click rejects or has no result, *)
(* or the solar-data lookup rejects, the handler of that click ends without *)
(* having called a mutating method of the manager: it has added no entry,   *)
(* the failing step changes no entry and no polygon, and the callback is    *)
(* not invoked (the list the page shows stays as it was).                   *)
C26_FailedLookupLeavesManagerAlone ==
  [][op'.name \in FailedLookups =>
       /\ buildings' = buildings
       /\ onMap' = onMap /\ detached' = detached /\ lostRefs' = lostRefs
       /\ notifs' = <<>>
       /\ selectedBuildings' = selectedBuildings
       /\ selectedBuildingId' = selectedBuildingId
       /\ \A i \in 1..MaxClicks :
            clicks'[i] # clicks[i] =>
              /\ clicks[i].pc \in {"geocoding", "fetching"}
              /\ clicks'[i].pc = "done"
              /\ clicks'[i].buildingId = NoId
              /\ clicks'[i].buildingInsights = 0]_vars

(* The solar-data lookup of one click has failed after another click added  *)
(* an entry: that entry is the only one, and the failed click has no id.    *)
C26_Witness ==
  /\ op.name = "solarFail"
  /\ Len(buildings) = 1
  /\ selectedBuildings = buildings
  /\ \E i \in 1..MaxClicks :
       /\ clicks[i].pc = "done"
       /\ clicks[i].address # <<>>
       /\ clicks[i].buildingId = NoId
       /\ pageLocation = clicks[i].clickedLocation


(* A coordinate (in 1e-7 degree) rounded to 6 decimals, as a number of 1e-6 *)
Rounded(x) == IF x < 0 THEN -((5 - x) \div 10) ELSE (x + 5) \div 10
RoundedLocation(l) == <<Rounded(l.lat), Rounded(l.lng)>>

(* C27: the id is an injective function of the rounded latitude, the        *)
(* rounded longitude and the timestamp: the id an add returns differs from  *)
(* the id of every location and time whose timestamp or rounded location    *)
(* differs, and an add whose timestamp or rounded location differs from     *)
(* those of every live entry leaves them all in place and appends one more. *)
C27_IdsDifferWhenKeyDiffers ==
  [][op'.name = "add" =>
       /\ \A l \in Locations, t \in 0..MaxTime :
            (t # now' \/ RoundedLocation(l) # RoundedLocation(op'.arg.location))
              => generateId(l, t) # ret'.id
       /\ \A i \in 1..Len(buildings) :
            (buildings[i].id[3] # now'
               \/ RoundedLocation(buildings[i].location) # RoundedLocation(op'.arg.location))
              => /\ buildings[i].id # ret'.id
                 /\ buildings'[i] = buildings[i]
       /\ (\A i \in 1..Len(buildings) :
             \/ buildings[i].id[3] # now'
             \/ RoundedLocation(buildings[i].location) # RoundedLocation(op'.arg.location))
            => /\ Len(buildings') = Len(buildings) + 1
               /\ buildings'[Len(buildings')].id = ret'.id]_vars

(* Two adds at the same location at different times: two live entries *)
C27_Witness ==
  /\ op.name = "add"
  /\ Len(buildings) = 2
  /\ buildings[1].location = buildings[2].location
  /\ buildings[1].id # buildings[2].id
  /\ buildings[2].id = ret.id
  /\ buildings[1].id[3] # buildings[2].id[3]


(* The entry b after the in-place update named name with argument arg *)
Updated(b, name, arg) ==
  CASE name = "updateConfig" -> [b EXCEPT !.configId = arg]
    [] name = "updateNickname" -> [b EXCEPT !.nickname = arg]
    [] name = "toggleActive" -> [b EXCEPT !.isActive = ~b.isActive]

(* C28: updateConfig, updateNickname and toggleActive on a live id return   *)
(* true and change exactly the named field of that entry (configId and      *)
(* nickname to the given value, isActive to its negation); its other        *)
(* fields, the other entries and the order of the entries stay as they are, *)
(* and so do the polygons.                                                  *)
C28_UpdatesChangeOneField ==
  [][(op'.name \in {"updateConfig", "updateNickname", "toggleActive"} /\ mapHas(buildings, op'.id)) =>
       /\ ret'.ok
       /\ Len(buildings') = Len(buildings)
       /\ \A i \in 1..Len(buildings) :
            buildings'[i] = IF buildings[i].id = op'.id
                            THEN Updated(buildings[i], op'.name, op'.arg)
                            ELSE buildings[i]
       /\ onMap' = onMap /\ detached' = detached /\ lostRefs' = lostRefs]_vars

(* updateConfig on the second of two entries, which is inactive, while the *)
(* first has another configId                                               *)
C28_Witness ==
  /\ op.name = "updateConfig" /\ ret.ok
  /\ Len(buildings) = 2
  /\ buildings[2].id = op.id
  /\ buildings[2].configId = op.arg
  /\ ~buildings[2].isActive
  /\ buildings[1].configId # op.arg


(* The entries with isActive set, in the order of the entries *)
ActiveEntries ==
  LET IsActive(b) == b.isActive IN SelectSeq(buildings, IsActive)

(* The building-level figures of a result *)
BuildingTotals(value) ==
  <<value.totalMaxArrayPanelsCount, value.totalMaxArrayAreaMeters2, value.totalRoofArea>>

C30_AverageOverActive ==
  (op.name = "aggregate" /\ ret.ok) =>
    LET n == Len(ActiveEntries)
        watts == [i \in 1..n |-> Insights(ActiveEntries[i].buildingInsights).panelCapacityWatts]
        average == ret.value.averagePanelCapacityWatts
    IN /\ average.den > 0
       /\ IF n = 0 THEN average.num = 0
          ELSE average.num * n = SumSeq(watts) * average.den

(* The mean over two entries of which the one with 400 W panels is inactive *)
C30_Witness ==
  /\ op.name = "aggregate" /\ ret.ok
  /\ Len(buildings) = 2
  /\ ~buildings[1].isActive /\ Insights(buildings[1].buildingInsights).panelCapacityWatts = 400
  /\ buildings[2].isActive
  /\ ret.value.averagePanelCapacityWatts = [num |-> 250, den |-> 1]


(* The sum of a sequence of fractions *)
RECURSIVE RatSumSeq(_)
RatSumSeq(s) == IF s = <<>> THEN [num |-> 0, den |-> 1] ELSE RatAdd(Head(s), RatSumSeq(Tail(s)))

(* The yield of entry b at a ratio and a derate, and its carbon offset at   *)
(* the factor of b's own insights                                           *)
YieldOf(b, a) ==
  Rat(Insights(b.buildingInsights).solarPanelConfigs[b.configId + 1].yearlyEnergyDcKwh
        * a.panelCapacityRatio.num * a.dcToAcDerate.num,
      a.panelCapacityRatio.den * a.dcToAcDerate.den)
OffsetOf(b, a) ==
  LET yield == YieldOf(b, a)
  IN Rat(yield.num * Insights(b.buildingInsights).carbonOffsetFactorKgPerMwh, yield.den * 1000)

(* C31: totalCarbonOffsetKgPerYear is the sum, over the active entries, of  *)
(* the entry's yield (yearlyEnergyDcKwh of its configuration x ratio x      *)
(* derate) times the entry's own carbonOffsetFactorKgPerMwh, divided by     *)
(* 1000; when the active entries all have one factor f, that is the total   *)
(* yield of the result times f / 1000.                                      *)
C31_CarbonWeightedPerEntry ==
  (op.name = "aggregate" /\ ret.ok) =>
    LET n == Len(ActiveEntries)
        factor(i) == Insights(ActiveEntries[i].buildingInsights).carbonOffsetFactorKgPerMwh
        total == ret.value.totalCarbonOffsetKgPerYear
        yield == ret.value.totalYearlyEnergyDcKwh
    IN /\ total = RatSumSeq([i \in 1..n |-> OffsetOf(ActiveEntries[i], op.arg)])
       /\ yield = RatSumSeq([i \in 1..n |-> YieldOf(ActiveEntries[i], op.arg)])
       /\ \A f \in {428, 500} :
            (\A i \in 1..n : factor(i) = f) =>
              total = RatDiv(RatMul(yield, Num(f)), 1000)

(* Two active entries with the factors 428 and 500 at ratio 3/2 and derate  *)
(* 1: 30000 x 0.428 + 4501.5 x 0.5 = 15090.75                               *)
C31_Witness ==
  /\ op.name = "aggregate" /\ ret.ok
  /\ Len(ret.value.buildings) = 2
  /\ Insights(ret.value.buildings[1].buildingInsights).carbonOffsetFactorKgPerMwh = 428
  /\ Insights(ret.value.buildings[2].buildingInsights).carbonOffsetFactorKgPerMwh = 500
  /\ ret.value.totalCarbonOffsetKgPerYear = [num |-> 60363, den |-> 4]

(* C32: in every result of aggregate, totalAreaMeters2 is exactly twice the *)
(* totalPanelsCount of the same result, which is the sum of the floored     *)
(* panel counts.                                                            *)
C32_AreaIsTwicePanels ==
  (op.name = "aggregate" /\ ret.ok) =>
    /\ ret.value.totalAreaMeters2 = 2 * ret.value.totalPanelsCount
    /\ ret.value.totalPanelsCount
         = SumSeq([i \in 1..Len(ActiveEntries) |->
                     (Insights(ActiveEntries[i].buildingInsights)
                        .solarPanelConfigs[ActiveEntries[i].configId + 1].panelsCount
                      * op.arg.panelCapacityRatio.num) \div op.arg.panelCapacityRatio.den])

(* Two entries of 7 panels at ratio 3/2: 10 + 10 panels and 40 m2, where    *)
(* the unfloored 21 panels would give 42                                    *)
C32_Witness ==
  /\ op.name = "aggregate" /\ ret.ok
  /\ op.arg.panelCapacityRatio = Rat(3, 2)
  /\ Len(ret.value.buildings) = 2
  /\ ret.value.totalPanelsCount = 20
  /\ ret.value.totalAreaMeters2 = 40


(* C39: findSolarConfig returns the smallest index whose configuration      *)
(* yields, at the ratio and the derate, at least the yearly consumption,    *)
(* and -1 when no configuration of the list does (the empty list included). *)
C39_FirstSufficientConfig ==
  op.name = "findSolarConfig" =>
    LET configs == op.arg.solarPanelConfigs
        reaches(k) ==
          configs[k].yearlyEnergyDcKwh * op.arg.panelCapacityRatio.num * op.arg.dcToAcDerate.num
            >= op.arg.yearlyKwhEnergyConsumption
                 * op.arg.panelCapacityRatio.den * op.arg.dcToAcDerate.den
        sufficient == { k \in 1..Len(configs) : reaches(k) }
    IN IF sufficient = {}
       THEN ret.value = -1
       ELSE /\ ret.value + 1 \in sufficient
            /\ \A k \in sufficient : ret.value + 1 <= k

(* Yields 3000, 1000, 2000 at derate 0.85 against a consumption of 1700:    *)
(* the third configuration yields exactly 1700, the first more; index 0     *)
(* is returned although index 2 is the tighter fit                          *)
C39_Witness ==
  /\ op.name = "findSolarConfig"
  /\ Len(op.arg.solarPanelConfigs) = 3
  /\ op.arg.solarPanelConfigs[1].yearlyEnergyDcKwh = 3000
  /\ op.arg.solarPanelConfigs[2].yearlyEnergyDcKwh = 1000
  /\ op.arg.solarPanelConfigs[3].yearlyEnergyDcKwh = 2000
  /\ op.arg.yearlyKwhEnergyConsumption = 1700
  /\ op.arg.dcToAcDerate = Rat(17, 20)
  /\ op.arg.panelCapacityRatio = Num(1)
  /\ ret.value = 0


(* C38: no location update of the building insights section is lost: when   *)
(* no request is in flight and insights are shown, they are the insights    *)
(* requested for the location the section has now; and the step that ends   *)
(* a request, with a result or with an error, leaves requestSent false.     *)
C38_LatestLocationShown ==
  [][/\ (~requestSent' /\ buildingInsights' # NoInsights)
          => buildingInsights'.location = pageLocation'
     /\ op'.name \in {"requestSucceeded", "requestFailed"} => ~requestSent']_vars

(* C36: a map click within 0.0001 degrees of a live entry starts no geocoding *)
(* and no solar lookup, leaves the registry and the map as they were,        *)
(* delivers no notification, ends the listener, and selects the id that      *)
(* hasBuilding returns, which is the id of a live entry near the click.      *)
C36_NearClickSelectsExisting ==
  [][\A i \in 1..MaxClicks :
       ( /\ op'.name = "click"
         /\ clicks[i].pc = "idle" /\ clicks'[i].pc # "idle"
         /\ \E j \in 1..Len(buildings) :
              Near(buildings[j].location, clicks'[i].clickedLocation, DefaultThreshold) )
       => /\ lookups' = lookups
          /\ clicks'[i].pc = "done"
          /\ buildings' = buildings /\ onMap' = onMap /\ detached' = detached
          /\ notifs' = <<>> /\ selectedBuildings' = selectedBuildings
          /\ selectedBuildingId' = hasBuilding(Cur, clicks'[i].clickedLocation, DefaultThreshold)
          /\ \E j \in 1..Len(buildings) :
               /\ buildings[j].id = selectedBuildingId'
               /\ Near(buildings[j].location, clicks'[i].clickedLocation, DefaultThreshold)]_vars

(* A finished click at another place than the entry it selected *)
C36_Witness ==
  /\ op.name = "click"
  /\ \E i \in 1..MaxClicks :
       /\ clicks[i].pc = "done"
       /\ \E j \in 1..Len(buildings) :
            /\ buildings[j].id = selectedBuildingId
            /\ buildings[j].location # clicks[i].clickedLocation
            /\ Near(buildings[j].location, clicks[i].clickedLocation, DefaultThreshold)

(* C33: with a callback, the list most recently delivered holds the ids of   *)
(* all(), in the same order, after every operation. Step by step: a step     *)
(* that changes the ids of all() or their order delivers a list, and the     *)
(* list a step delivers last has exactly the ids of all() after that step,   *)
(* in the same order; nothing is delivered while no operation has run.       *)
C33_DeliveredListTracksAll ==
  [][hasCallback =>
       /\ Ids(buildings') # Ids(buildings) => notifs' # <<>>
       /\ notifs' # <<>> => Ids(notifs'[Len(notifs')].buildings) = Ids(getAllBuildings(Cur)')]_vars

(* A removal from a two-entry registry has just been delivered *)
C33_Witness ==
  /\ hasCallback
  /\ op.name = "remove" /\ ret.ok
  /\ notifs # <<>>
  /\ Len(buildings) = 1
  /\ Ids(notifs[Len(notifs)].buildings) = Ids(buildings)
  /\ op.id # buildings[1].id

(* C34: whatever the interleaving of the click's add flow with remove and   *)
(* clear, every panel or boundary polygon shown on the map is referenced by *)
(* a live registry entry.                                                   *)
C34_ShownPolygonsAreOwned ==
  onMap \subseteq UNION { RefsOf(buildings[i]) : i \in 1..Len(buildings) }

C37_CancelDiscardsPendingText ==
  [][op'.name \in {"escape", "cancelClick"} =>
       /\ notifs' = <<>>
       /\ buildings' = buildings
       /\ editingNickname' = NoId]_vars

====
